---- MODULE Spec2Model ----
(***************************************************************************)
(* WebNest: a model of the icon pipeline (icon.js), the installer          *)
(* (installer.js), the name/identifier utilities (utils.js) and the        *)
(* remove/list commands (index.js).                                        *)
(*                                                                         *)
(* Strings are TLC strings: Len, \o and SubSeq work on them, so the        *)
(* JavaScript string methods are written out character by character.      *)
(***************************************************************************)
EXTENDS Integers, Sequences, FiniteSets, TLC

VARIABLES
    websiteUrl,     \* discovery: the page URL handed to getBestIconUrl
    net,            \* discovery: what the network answers to each request
    discovery,      \* discovery: "pending", or what getBestIconUrl did
    server,         \* fetch: the server's answer to a GET of each URL
    fetch,          \* fetch: the state of one fetchUrl promise
    platform,       \* installer: process.platform
    env,            \* installer: what the network, the disk and the tools do to the
                    \* icon pipeline of the operation under way
    fs,             \* installer: the file system, path -> content
    history,        \* installer: the app names installWebApp was called with
    last,           \* installer: the last operation, its inputs and result
    running         \* installer: the installs under way at the same time, each with
                    \* the place it has reached in createLinuxApp and prepareIcon

vars ==
    <<websiteUrl, net, discovery, server, fetch, platform, env, fs, history, last,
      running>>
discoveryVars == <<websiteUrl, net, discovery>>
fetchVars == <<server, fetch>>
installerVars == <<platform, env, fs, history, last, running>>

----------------------------------------------------------------------------
(* JavaScript string methods                                               *)

CharAt(s, i) == SubSeq(s, i, i)

\* s.startsWith(t)
StartsWith(s, t) == Len(s) >= Len(t) /\ SubSeq(s, 1, Len(t)) = t

\* s.endsWith(t)
EndsWith(s, t) == Len(s) >= Len(t) /\ SubSeq(s, Len(s) - Len(t) + 1, Len(s)) = t

\* the least and the greatest element of a set of positions, 0 for the empty set
MinOr0(S) == IF S = {} THEN 0 ELSE CHOOSE i \in S : \A j \in S : i <= j
MaxOr0(S) == IF S = {} THEN 0 ELSE CHOOSE i \in S : \A j \in S : i >= j

\* s.indexOf(t), 1-based; 0 when t does not occur
IndexOf(s, t) ==
    MinOr0({i \in 1..(Len(s) - Len(t) + 1) : SubSeq(s, i, i + Len(t) - 1) = t})

\* s.lastIndexOf(t), 1-based; 0 when t does not occur
LastIndexOf(s, t) ==
    MaxOr0({i \in 1..(Len(s) - Len(t) + 1) : SubSeq(s, i, i + Len(t) - 1) = t})

\* s.includes(t)
Includes(s, t) == IndexOf(s, t) # 0

\* s.substring(0, n)
Substring0(s, n) == SubSeq(s, 1, IF Len(s) < n THEN Len(s) ELSE n)

\* s.slice(i) with a 1-based i
From(s, i) == SubSeq(s, i, Len(s))

UpperChars == "ABCDEFGHIJKLMNOPQRSTUVWXYZ"
LowerChars == "abcdefghijklmnopqrstuvwxyz"
DigitChars == "0123456789"

\* the set of the characters of a string
CharsOf(s) == {CharAt(s, i) : i \in 1..Len(s)}

UpperSet == CharsOf(UpperChars)
LowerSet == CharsOf(LowerChars)
DigitSet == CharsOf(DigitChars)

LowerMap == [c \in UpperSet |-> CharAt(LowerChars, IndexOf(UpperChars, c))]
UpperMap == [c \in LowerSet |-> CharAt(UpperChars, IndexOf(LowerChars, c))]

LowerChar(c) == IF c \in UpperSet THEN LowerMap[c] ELSE c

UpperChar(c) == IF c \in LowerSet THEN UpperMap[c] ELSE c

RECURSIVE ToLowerCase(_)
\* s.toLowerCase()
ToLowerCase(s) ==
    IF s = "" THEN "" ELSE LowerChar(CharAt(s, 1)) \o ToLowerCase(From(s, 2))

IsDigit(c) == c \in DigitSet
IsLetter(c) == c \in UpperSet \/ c \in LowerSet
\* the characters of \s that the inputs use: space, tab, newline
IsSpace(c) == c \in {" ", "\t", "\n"}

RECURSIVE RemoveChars(_, _)
\* s.replace(/[set]/g, '') for a set of characters
RemoveChars(s, set) ==
    IF s = "" THEN ""
    ELSE (IF CharAt(s, 1) \in set THEN "" ELSE CharAt(s, 1))
            \o RemoveChars(From(s, 2), set)

RECURSIVE KeepChars(_, _)
\* s.replace(/[^set]/g, '')
KeepChars(s, set) ==
    IF s = "" THEN ""
    ELSE (IF CharAt(s, 1) \in set THEN CharAt(s, 1) ELSE "")
            \o KeepChars(From(s, 2), set)

RECURSIVE ReplaceChar(_, _, _)
\* s.replace(/c/g, d) for one character c
ReplaceChar(s, c, d) ==
    IF s = "" THEN ""
    ELSE (IF CharAt(s, 1) = c THEN d ELSE CharAt(s, 1)) \o ReplaceChar(From(s, 2), c, d)

\* whitespace left as it is
KeepSpace(s) == s

RECURSIVE CollapseSpace(_)
\* s.replace(/\s+/g, ' ')
CollapseSpace(s) ==
    IF s = "" THEN ""
    ELSE IF IsSpace(CharAt(s, 1))
         THEN IF Len(s) >= 2 /\ IsSpace(CharAt(s, 2))
              THEN CollapseSpace(From(s, 2))
              ELSE " " \o CollapseSpace(From(s, 2))
         ELSE CharAt(s, 1) \o CollapseSpace(From(s, 2))

RECURSIVE TrimStart(_)
TrimStart(s) == IF s # "" /\ IsSpace(CharAt(s, 1)) THEN TrimStart(From(s, 2)) ELSE s

RECURSIVE TrimEnd(_)
TrimEnd(s) ==
    IF s # "" /\ IsSpace(CharAt(s, Len(s))) THEN TrimEnd(SubSeq(s, 1, Len(s) - 1)) ELSE s

\* s.trim()
Trim(s) == TrimEnd(TrimStart(s))

\* s cut at position i, where a delimiter of length n stands: all of s before it
\* when i = 0
CutAt(s, i, n) ==
    IF i = 0 THEN [found |-> FALSE, before |-> s, after |-> ""]
    ELSE [found |-> TRUE, before |-> SubSeq(s, 1, i - 1), after |-> From(s, i + n)]

\* s cut at the first and at the last occurrence of t
SplitFirst(s, t) == CutAt(s, IndexOf(s, t), Len(t))
SplitLast(s, t) == CutAt(s, LastIndexOf(s, t), Len(t))

\* s cut before its first character in set; after keeps that character
CutBefore(s, set) == CutAt(s, MinOr0({i \in 1..Len(s) : CharAt(s, i) \in set}), 0)

\* s.replace(t, r): the first occurrence only
ReplaceFirst(s, t, r) ==
    LET Put(cut) == IF cut.found THEN cut.before \o r \o cut.after ELSE s
    IN Put(SplitFirst(s, t))

\* s.split(c)[0]
BeforeFirst(s, c) == SplitFirst(s, c).before

DigitMap == [c \in DigitSet |-> IndexOf(DigitChars, c) - 1]
DigitValue(c) == DigitMap[c]

RECURSIVE LeadingDigits(_, _)
\* the value of the digits s starts with, after acc
LeadingDigits(s, acc) ==
    IF s # "" /\ IsDigit(CharAt(s, 1))
    THEN LeadingDigits(From(s, 2), 10 * acc + DigitValue(CharAt(s, 1)))
    ELSE acc

\* parseInt(s, 10) || 0 : leading white space, a sign, digits; NaN and 0 give 0
ParseIntOr0(s) ==
    LET Signed(t) ==
            IF StartsWith(t, "-") THEN 0 - LeadingDigits(From(t, 2), 0)
            ELSE IF StartsWith(t, "+") THEN LeadingDigits(From(t, 2), 0)
            ELSE LeadingDigits(t, 0)
    IN Signed(TrimStart(s))

----------------------------------------------------------------------------
(* new URL(...): URLs of the shape scheme://host[:port][/path][?query][#hash] *)

InvalidUrl == [valid |-> FALSE]

\* code points the URL parser refuses in a host
ForbiddenHostChars == CharsOf(" #%<>@[\\]^|")

DefaultPort(scheme) == IF scheme = "https" THEN "443" ELSE IF scheme = "http" THEN "80" ELSE ""

AllLetters(s) == \A i \in 1..Len(s) : IsLetter(CharAt(s, i))
AllDigits(s) == \A i \in 1..Len(s) : IsDigit(CharAt(s, i))

\* the URL record of a scheme, a host, a port and what follows the authority, cut at
\* its "?"
UrlRecord(scheme, hostname, portStr, q) ==
    IF \/ ~AllLetters(scheme)
       \/ hostname = ""
       \/ \E k \in 1..Len(hostname) : CharAt(hostname, k) \in ForbiddenHostChars
       \/ ~AllDigits(portStr)
    THEN InvalidUrl
    ELSE [valid |-> TRUE,
          protocol |-> scheme \o ":",
          hostname |-> hostname,
          port |-> IF portStr = DefaultPort(scheme) THEN "" ELSE portStr,
          pathname |-> IF q.before = "" THEN "/" ELSE q.before,
          search |-> IF q.after = "?" THEN "" ELSE q.after]

\* the URL of a scheme, an authority cut at its last ":", and what follows it
UrlAuthority(scheme, hp, tail) ==
    UrlRecord(scheme,
              ToLowerCase(hp.before),
              hp.after,
              CutBefore(SplitFirst(tail, "#").before, {"?"}))

\* the URL of a string cut at its first "://"
UrlScheme(a) ==
    LET Rest(b) == UrlAuthority(ToLowerCase(a.before), SplitLast(b.before, ":"), b.after)
    IN IF ~a.found \/ a.before = "" THEN InvalidUrl
       ELSE Rest(CutBefore(a.after, {"/", "?", "#"}))

\* new URL(s): a record of url.protocol, hostname, port, pathname, search, or InvalidUrl
\* (the constructor throws)
ParseUrl(s) == UrlScheme(SplitFirst(s, "://"))

\* url.href (without the hash, which no input carries)
Href(u) ==
    u.protocol \o "//" \o u.hostname \o (IF u.port = "" THEN "" ELSE ":" \o u.port)
        \o u.pathname \o u.search

\* a reference that is no absolute URL, path and query in q, against the parsed base b
ResolveRelative(ref, q, b) ==
    IF ~b.valid THEN InvalidUrl
    ELSE IF StartsWith(ref, "//") THEN ParseUrl(b.protocol \o ref)
    ELSE IF StartsWith(ref, "/")
         THEN [b EXCEPT !.pathname = q.before,
                        !.search = IF q.after = "?" THEN "" ELSE q.after]
    ELSE [b EXCEPT !.pathname = SubSeq(b.pathname, 1, LastIndexOf(b.pathname, "/"))
                                    \o q.before,
                   !.search = IF q.after = "?" THEN "" ELSE q.after]

\* new URL(ref, base): a parsed URL, or InvalidUrl (the constructor throws)
ResolveUrl(ref, base) ==
    LET Pick(r) == IF r.valid THEN r
                   ELSE ResolveRelative(ref, CutBefore(ref, {"?"}), ParseUrl(base))
    IN Pick(ParseUrl(ref))

\* validateUrl
validateUrl(urlString) ==
    LET Check(url) == url.valid /\ (url.protocol = "http:" \/ url.protocol = "https:")
    IN Check(ParseUrl(urlString))

----------------------------------------------------------------------------
(* utils.js                                                                *)

MaxNameLen == 50
MaxPathPartLen == 20
IllegalNameChars == CharsOf("<>:\"/\\|?*")
IdChars == UpperSet \cup LowerSet \cup DigitSet \cup {"-"}

\* sanitizeAppName(name)
sanitizeAppName(name) ==
    Substring0(Trim(CollapseSpace(RemoveChars(name, IllegalNameChars))), MaxNameLen)

\* generateAppId(urlString); now is Date.now() as a string
generateAppId(urlString, now) ==
    LET Id(url) ==
            IF url.valid
            THEN ToLowerCase("com.webnest."
                    \o ReplaceChar(url.hostname, ".", "-")
                    \o Substring0(KeepChars(ReplaceChar(url.pathname, "/", "-"), IdChars),
                                  MaxPathPartLen))
            ELSE "com.webnest.app-" \o now
    IN Id(ParseUrl(urlString))

----------------------------------------------------------------------------
(* icon.js: icon discovery                                                 *)
(*                                                                         *)
(* A page's HTML is the sequence of its <link ...> tags, each a record of  *)
(* its attribute values ("" for an attribute the regular expression does   *)
(* not match) and of whether rel comes before href in the tag.  A response *)
(* is [ok |-> FALSE] (fetchUrl rejects: network error, timeout, non-200)   *)
(* or [ok |-> TRUE, data |-> ..., contentType |-> ...].                    *)

AppleTouchBonus == 1000

Null == "null"

Rejected == [ok |-> FALSE]

\* fetchUrl(urlString) seen from its caller: new URL(urlString) throws inside the
\* promise executor for a malformed URL, otherwise the server's answer decides
FetchResult(urlString, response) ==
    IF ParseUrl(urlString).valid THEN response ELSE Rejected

\* the size a sizes attribute states: sizes.split('x')[0], parseInt(.., 10) || 0
ParseSize(sizes) == IF sizes = "" THEN 0 ELSE ParseIntOr0(BeforeFirst(sizes, "x"))

\* a ranking that forgets the apple-touch-icon bonus
LinkPriorityNoBonus(isAppleIcon, size) == size

\* priority: isAppleIcon ? size + 1000 : size
LinkPriority(isAppleIcon, size) == IF isAppleIcon THEN size + AppleTouchBonus ELSE size

\* the icons.push(...) of the loop body, for a tag whose href became href
IconOfLink(link, href, size, isAppleIcon) ==
    [href |-> href,
     size |-> size,
     type |-> link.type,
     isAppleIcon |-> isAppleIcon,
     priority |-> LinkPriority(isAppleIcon, size)]

\* the loop body of parseIconLinks on one <link> tag: the tag is skipped (continue),
\* new URL(href, baseUrl) throws, or an icon is pushed
LinkIcon(link, baseUrl) ==
    LET Push(href) ==
            [kind |-> "icon",
             icon |-> IconOfLink(link, href, ParseSize(link.sizes),
                                 Includes(ToLowerCase(link.rel), "apple-touch-icon"))]
        Resolved(u) == IF u.valid THEN Push(Href(u)) ELSE [kind |-> "throw"]
    IN IF link.rel = "" THEN [kind |-> "skip"]
       ELSE IF ~Includes(ToLowerCase(link.rel), "icon") THEN [kind |-> "skip"]
       ELSE IF link.href = "" THEN [kind |-> "skip"]
       ELSE IF StartsWith(link.href, "http") THEN Push(link.href)
       ELSE Resolved(ResolveUrl(link.href, baseUrl))

RECURSIVE IconLinksFrom(_, _, _, _)
\* the for loop of parseIconLinks from the i-th <link> tag on, icons collected so far
IconLinksFrom(matches, baseUrl, i, icons) ==
    LET Step(r) ==
            IF r.kind = "throw" THEN [threw |-> TRUE, icons |-> <<>>]
            ELSE IconLinksFrom(matches, baseUrl, i + 1,
                               IF r.kind = "skip" THEN icons ELSE Append(icons, r.icon))
    IN IF i > Len(matches) THEN [threw |-> FALSE, icons |-> icons]
       ELSE Step(LinkIcon(matches[i], baseUrl))

\* the first tag the manifest regular expression matches: rel="manifest" followed, in
\* the same tag, by an href; 0 when there is none
ManifestMatch(html) ==
    MinOr0({i \in 1..Len(html) :
                /\ ToLowerCase(html[i].rel) = "manifest"
                /\ html[i].relFirst
                /\ html[i].href # ""})

\* the manifest URL of the matched href: as it stands when it starts with http,
\* otherwise new URL(manifestUrl, baseUrl).href, which may throw
ManifestUrlOf(raw, baseUrl) ==
    LET Resolved(u) == IF u.valid THEN [threw |-> FALSE, url |-> Href(u)]
                       ELSE [threw |-> TRUE]
    IN IF StartsWith(raw, "http") THEN [threw |-> FALSE, url |-> raw]
       ELSE Resolved(ResolveUrl(raw, baseUrl))

\* parseIconLinks(html, baseUrl)
parseIconLinks(html, baseUrl) ==
    LET Failed == [threw |-> TRUE, icons |-> <<>>, manifestUrl |-> Null]
        WithManifest(loop, mu) ==
            IF mu.threw THEN Failed
            ELSE [threw |-> FALSE, icons |-> loop.icons, manifestUrl |-> mu.url]
        Finish(loop, m) ==
            IF loop.threw THEN Failed
            ELSE IF m = 0 THEN [threw |-> FALSE, icons |-> loop.icons, manifestUrl |-> Null]
            ELSE WithManifest(loop, ManifestUrlOf(html[m].href, baseUrl))
    IN Finish(IconLinksFrom(html, baseUrl, 1, <<>>), ManifestMatch(html))

\* the map callback of parseManifest on one entry of manifest.icons: it throws on an
\* entry without src (href.startsWith of undefined) and when new URL(href, baseUrl)
\* throws
ManifestIcon(icon, manifestUrl) ==
    LET Made(href) ==
            [threw |-> FALSE,
             icon |-> [href |-> href, size |-> ParseSize(icon.sizes), type |-> "",
                       purpose |-> "any", priority |-> ParseSize(icon.sizes)]]
        Resolved(u) == IF u.valid THEN Made(Href(u)) ELSE [threw |-> TRUE]
    IN IF "src" \notin DOMAIN icon THEN [threw |-> TRUE]
       ELSE IF StartsWith(icon.src, "http") THEN Made(icon.src)
       ELSE Resolved(ResolveUrl(icon.src, manifestUrl))

\* parseManifest(manifestUrl): the body is "malformed" (JSON.parse throws), an object
\* with no icons member, one whose icons is no array, or one with an icons array;
\* whatever throws inside is caught and gives []
parseManifest(manifestUrl, response) ==
    LET Mapped(rs) ==
            IF \E i \in 1..Len(rs) : rs[i].threw THEN <<>>
            ELSE [i \in 1..Len(rs) |-> rs[i].icon]
        Parsed(res) ==
            IF ~res.ok THEN <<>>
            ELSE IF res.data.json # "icons" THEN <<>>
            ELSE Mapped([i \in 1..Len(res.data.icons) |->
                            ManifestIcon(res.data.icons[i], manifestUrl)])
    IN Parsed(FetchResult(manifestUrl, response))

RECURSIVE InsertByPriorityUnstable(_, _)
\* an unstable sort: x is put before the elements of its own priority
InsertByPriorityUnstable(sorted, x) ==
    IF sorted = <<>> THEN <<x>>
    ELSE IF Head(sorted).priority > x.priority
         THEN <<Head(sorted)>> \o InsertByPriorityUnstable(Tail(sorted), x)
         ELSE <<x>> \o sorted

RECURSIVE InsertByPriority(_, _)
\* sorted with x put after every element of priority >= x.priority
InsertByPriority(sorted, x) ==
    IF sorted = <<>> THEN <<x>>
    ELSE IF Head(sorted).priority >= x.priority
         THEN <<Head(sorted)>> \o InsertByPriority(Tail(sorted), x)
         ELSE <<x>> \o sorted

RECURSIVE SortInto(_, _)
SortInto(sorted, rest) ==
    IF rest = <<>> THEN sorted ELSE SortInto(InsertByPriority(sorted, Head(rest)), Tail(rest))

\* allIcons.sort((a, b) => b.priority - a.priority): Array.prototype.sort is stable
SortByPriority(allIcons) == SortInto(<<>>, allIcons)

\* a fallback built from url.host, which keeps the port
FaviconUrlWithPort(url) ==
    url.protocol \o "//" \o url.hostname \o (IF url.port = "" THEN "" ELSE ":" \o url.port)
        \o "/favicon.ico"

\* `${url.protocol}//${url.hostname}/favicon.ico`
FaviconUrl(url) == url.protocol \o "//" \o url.hostname \o "/favicon.ico"

\* a getBestIconUrl without its catch block: what is thrown inside reaches the caller
FaviconFallbackRethrows(urlString, requests) ==
    IF requests = <<urlString>>
    THEN [state |-> "raised", requests |-> requests, allIcons |-> <<>>]
    ELSE [state |-> "returned", url |-> FaviconUrl(ParseUrl(urlString)),
          requests |-> requests, allIcons |-> <<>>]

\* the catch block of getBestIconUrl, and the fallback past the sort: new URL(websiteUrl)
\* throws for a malformed websiteUrl
FaviconFallback(urlString, requests) ==
    LET Fallback(url) ==
            IF url.valid
            THEN [state |-> "returned", url |-> FaviconUrl(url), requests |-> requests,
                  allIcons |-> <<>>]
            ELSE [state |-> "raised", requests |-> requests, allIcons |-> <<>>]
    IN Fallback(ParseUrl(urlString))

\* the best of allIcons: allIcons.sort(...), then allIcons[0].href
BestIcon(allIcons, requests) ==
    [state |-> "returned", url |-> SortByPriority(allIcons)[1].href,
     requests |-> requests, allIcons |-> allIcons]

\* getBestIconUrl(websiteUrl) on a network n = [page |-> response, manifest |-> response];
\* requests are the URLs it hands to fetchUrl, allIcons the array it ranks
getBestIconUrl(urlString, n) ==
    LET Ranked(allIcons, requests) ==
            IF Len(allIcons) > 0 THEN BestIcon(allIcons, requests)
            ELSE FaviconFallback(urlString, requests)
        Parsed(parsed) ==
            IF parsed.threw THEN FaviconFallback(urlString, <<urlString>>)
            ELSE IF parsed.manifestUrl = Null THEN Ranked(parsed.icons, <<urlString>>)
            ELSE Ranked(parsed.icons \o parseManifest(parsed.manifestUrl, n.manifest),
                        <<urlString, parsed.manifestUrl>>)
        Fetched(page) ==
            IF ~page.ok THEN FaviconFallback(urlString, <<urlString>>)
            ELSE Parsed(parseIconLinks(page.data, urlString))
    IN Fetched(FetchResult(urlString, n.page))

----------------------------------------------------------------------------
(* Icon discovery on bounded inputs: SpecDiscovery                         *)

MaxLinks == 2
MaxManifestIcons == 2

PageUrls == {"https://example.com/", "http://localhost:3000/app/index.html?x=1"}

LinkTag(rel, href, sizes) ==
    [rel |-> rel, href |-> href, sizes |-> sizes, type |-> "", relFirst |-> TRUE]

\* <link> tags that are not manifest links
LinkTags ==
    { LinkTag("stylesheet", "/site.css", ""),
      LinkTag("icon", "", "16x16"),
      LinkTag("icon", "//[", "64x64"),
      LinkTag("shortcut icon", "https://cdn.example.com/fav.ico", "48x48"),
      LinkTag("icon", "img/icon-1024.png", "1024x1024"),
      LinkTag("apple-touch-icon", "/apple.png", ""),
      LinkTag("apple-touch-icon", "/apple-180.png", "180x180") }

\* what a page can say about its manifest: nothing, a manifest link, one whose href
\* does not resolve, one the regular expression misses (href before rel)
ManifestLinks ==
    { <<>>,
      <<LinkTag("manifest", "/manifest.json", "")>>,
      <<LinkTag("manifest", "//[", "")>>,
      <<[LinkTag("manifest", "/manifest.json", "") EXCEPT !.relFirst = FALSE]>> }

SeqsUpTo(S, n) == UNION {[1..k -> S] : k \in 0..n}

Pages == {links \o m : links \in SeqsUpTo(LinkTags, MaxLinks), m \in ManifestLinks}

ManifestEntries ==
    { [sizes |-> "48x48"],
      [src |-> "a.png", sizes |-> "48x48"],
      [src |-> "b.png", sizes |-> "192x192"],
      [src |-> "https://cdn.example.com/m.png", sizes |-> "48x48"] }

ManifestBodies ==
    {[json |-> "malformed"], [json |-> "noIcons"], [json |-> "iconsNotArray"]}
        \cup {[json |-> "icons", icons |-> icons] :
                    icons \in SeqsUpTo(ManifestEntries, MaxManifestIcons)}

OkResponse(data) == [ok |-> TRUE, data |-> data, contentType |-> ""]

\* the networks a page is looked up on; the manifest's answer is only enumerated for
\* a page whose manifest is requested
Networks ==
    {[page |-> Rejected, manifest |-> Rejected]}
        \cup {[page |-> OkResponse(html), manifest |-> Rejected] : html \in Pages}
        \cup {[page |-> OkResponse(html), manifest |-> OkResponse(body)] :
                    html \in {h \in Pages : h # <<>> /\ h[Len(h)].href = "/manifest.json"
                                               /\ h[Len(h)].relFirst},
                    body \in ManifestBodies}

Pending == [state |-> "pending"]

\* no installer in sight
InitNoInstaller ==
    /\ platform = "none" /\ env = [kind |-> "none"] /\ fs = <<>> /\ history = <<>>
    /\ last = [op |-> "none"] /\ running = <<>>

InitIdle ==
    /\ websiteUrl = "" /\ net = [page |-> Rejected, manifest |-> Rejected]
    /\ discovery = [state |-> "idle"] /\ running = <<>>

InitDiscovery ==
    /\ websiteUrl \in PageUrls
    /\ net \in Networks
    /\ discovery = Pending
    /\ server = <<>> /\ fetch = [state |-> "idle"]
    /\ InitNoInstaller

\* the caller awaits getBestIconUrl(websiteUrl)
GetBestIconUrl ==
    /\ discovery = Pending
    /\ discovery' = getBestIconUrl(websiteUrl, net)
    /\ UNCHANGED <<websiteUrl, net, fetchVars, installerVars>>

NextDiscovery == GetBestIconUrl

SpecDiscovery == InitDiscovery /\ [][NextDiscovery]_vars

----------------------------------------------------------------------------
(* Icon discovery: the claims                                              *)

Returned == discovery.state = "returned"

\* the <link> tags of the page, <<>> when the page fetch failed
Html == IF net.page.ok THEN net.page.data ELSE <<>>

\* the entries of the manifest's icons array, <<>> when there is none
ManifestIcons ==
    IF net.manifest.ok /\ net.manifest.data.json = "icons" THEN net.manifest.data.icons
    ELSE <<>>

\* {scheme}://{hostname}/favicon.ico of each page URL, written out
ExpectedFavicon ==
    [u \in PageUrls |->
        IF u = "https://example.com/" THEN "https://example.com/favicon.ico"
        ELSE "http://localhost/favicon.ico"]

\* the origin hrefs of the page are resolved against, written out
ExpectedOrigin ==
    [u \in PageUrls |->
        IF u = "https://example.com/" THEN "https://example.com" ELSE "http://localhost:3000"]

IsIconRel(rel) == rel \in {"icon", "shortcut icon", "apple-touch-icon"}
IsAppleCandidate(c) == "isAppleIcon" \in DOMAIN c /\ c.isAppleIcon
Candidates == {discovery.allIcons[i] : i \in 1..Len(discovery.allIcons)}

C5_AppleTouchAlwaysWins ==
    (Returned /\ \E a \in Candidates : IsAppleCandidate(a))
        => \E a \in Candidates : IsAppleCandidate(a) /\ discovery.url = a.href

\* C5 amended: an apple-touch-icon is selected whenever some apple-touch-icon's size
\* plus 1000 exceeds the size of every candidate that is not an apple-touch-icon.
C5_AppleTouchWinsWithin1000 ==
    (Returned /\ \E a \in Candidates :
                    /\ IsAppleCandidate(a)
                    /\ \A c \in Candidates :
                            ~IsAppleCandidate(c) => a.size + AppleTouchBonus > c.size)
        => \E a \in Candidates : IsAppleCandidate(a) /\ discovery.url = a.href

\* C5 witness: an apple-touch-icon is selected over a candidate stating a larger size
C5_Witness ==
    /\ Returned
    /\ \E a, c \in Candidates :
            /\ IsAppleCandidate(a) /\ ~IsAppleCandidate(c)
            /\ c.size > a.size
            /\ discovery.url = a.href

\* C6: with at least one candidate, discovery returns the href of the first candidate,
\* in encounter order (HTML links in document order, then manifest icons in array
\* order), among those of maximal priority; with only the manifest icons a.png 48x48
\* and b.png 192x192, b.png is returned.
C6_FirstOfMaximalPriority ==
    LET all == discovery.allIcons
    IN /\ (Returned /\ all # <<>>) =>
            \E i \in 1..Len(all) :
                /\ discovery.url = all[i].href
                /\ \A j \in 1..Len(all) : all[j].priority <= all[i].priority
                /\ \A j \in 1..(i - 1) : all[j].priority < all[i].priority
       /\ (/\ Returned
           /\ \A i \in 1..Len(Html) : ~IsIconRel(Html[i].rel)
           /\ Len(discovery.requests) = 2
           /\ ManifestIcons = <<[src |-> "a.png", sizes |-> "48x48"],
                                [src |-> "b.png", sizes |-> "192x192"]>>)
            => discovery.url = ExpectedOrigin[websiteUrl] \o "/b.png"
       /\ (/\ Returned
           /\ Len(Html) = 2
           /\ Html[1].href = "https://cdn.example.com/fav.ico"
           /\ Len(discovery.requests) = 2
           /\ ManifestIcons = <<[src |-> "a.png", sizes |-> "48x48"]>>)
            => discovery.url = "https://cdn.example.com/fav.ico"

\* C6 witness: two candidates with different hrefs share the maximal priority, and the
\* earlier one is returned
C6_Witness ==
    LET all == discovery.allIcons
    IN /\ Returned
       /\ \E i, j \in 1..Len(all) :
            /\ i < j
            /\ all[i].priority = all[j].priority
            /\ all[i].href # all[j].href
            /\ \A k \in 1..Len(all) : all[k].priority <= all[i].priority
            /\ discovery.url = all[i].href

\* C7: when discovery finds no candidates (the page fetch failed, or the page has no
\* icon-like link and no manifest link), it returns {scheme}://{hostname}/favicon.ico
\* of the page URL: the port, the path and the query string of the page URL are not
\* part of it.
C7_FaviconFallback ==
    (/\ discovery.state # "pending"
     /\ \/ ~net.page.ok
        \/ \A i \in 1..Len(Html) : ~IsIconRel(Html[i].rel) /\ Html[i].rel # "manifest"
        \/ discovery.allIcons = <<>>)
        => Returned /\ discovery.url = ExpectedFavicon[websiteUrl]

\* C7 witness: the fallback of a page URL with a port, a path and a query string, after
\* a page with a link that is no icon link
C7_Witness ==
    /\ Returned
    /\ websiteUrl = "http://localhost:3000/app/index.html?x=1"
    /\ net.page.ok /\ Len(Html) = 1 /\ Html[1].rel = "stylesheet"
    /\ discovery.url = "http://localhost/favicon.ico"

\* C8: a failure inside one discovery source is confined to it: when the manifest
\* gives nothing (fetch failed, malformed JSON, an entry without src) the well-formed
\* HTML icon links are still ranked, and when an HTML icon link's href cannot be
\* resolved the well-formed manifest icons are still ranked and one of them is returned.
C8_FailureConfinedToSource ==
    /\ (/\ Returned
        /\ \E i \in 1..Len(Html) : IsIconRel(Html[i].rel) /\ Html[i].href \notin {"", "//["}
        /\ \A i \in 1..Len(Html) : Html[i].href # "//["
        /\ \/ ~net.manifest.ok
           \/ net.manifest.data.json # "icons"
           \/ \E i \in 1..Len(ManifestIcons) : "src" \notin DOMAIN ManifestIcons[i])
        => discovery.url # ExpectedFavicon[websiteUrl]
    /\ (/\ Returned
        /\ \E i \in 1..Len(Html) : IsIconRel(Html[i].rel) /\ Html[i].href = "//["
        /\ Html[Len(Html)].rel = "manifest" /\ Html[Len(Html)].href = "/manifest.json"
        /\ Html[Len(Html)].relFirst
        /\ ManifestIcons # <<>>
        /\ \A i \in 1..Len(ManifestIcons) : "src" \in DOMAIN ManifestIcons[i])
        => \E i \in 1..Len(ManifestIcons) : EndsWith(discovery.url, ManifestIcons[i].src)

----------------------------------------------------------------------------
(* The network fetcher: fetchUrl as a state machine, one request per step  *)

\* requests the model lets one fetch issue; fetchUrl itself counts nothing
MaxRequests == 12

FetchUrls ==
    {"https://a.example/", "https://a.example/b", "http://b.example/", "http://b.example/b"}

\* Location headers: a path, and two absolute URLs
Locations == {"/b", "https://a.example/", "http://b.example/"}

\* what a server does with a request: a socket error or a timeout, or a response with
\* a status code and possibly a Location header
Responses ==
    {[kind |-> "error"]}
        \cup {[kind |-> "response", status |-> s, location |-> Null] : s \in {200, 404, 302}}
        \cup {[kind |-> "response", status |-> 302, location |-> l] : l \in Locations}

\* res.statusCode >= 300 && res.statusCode < 400 && res.headers.location
IsRedirect(res) ==
    res.kind = "response" /\ res.status >= 300 /\ res.status < 400 /\ res.location # Null

\* location.startsWith('http') ? location : new URL(location, urlString).href
RedirectUrl(location, urlString) ==
    IF StartsWith(location, "http") THEN location ELSE Href(ResolveUrl(location, urlString))

InitFetch ==
    /\ server \in [FetchUrls -> Responses]
    /\ fetch = [state |-> "idle"]
    /\ InitIdle
    /\ InitNoInstaller

\* fetchUrl(urlString): new URL(urlString) throws in the executor, which rejects the
\* promise; otherwise the request is sent
FetchUrl ==
    /\ fetch.state = "idle"
    /\ \E urlString \in FetchUrls :
          fetch' = IF ParseUrl(urlString).valid
                   THEN [state |-> "requesting", url |-> urlString, requests |-> 1]
                   ELSE [state |-> "rejected", error |-> "Invalid URL", requests |-> 0]
    /\ UNCHANGED <<server, discoveryVars, installerVars>>

\* the response callback on a 3xx with a Location header: fetchUrl(redirectUrl, options),
\* whose outcome becomes the outcome of this fetch
FollowRedirect ==
    /\ fetch.state = "requesting"
    /\ IsRedirect(server[fetch.url])
    /\ fetch.requests < MaxRequests
    /\ fetch' = [fetch EXCEPT !.url = RedirectUrl(server[fetch.url].location, fetch.url),
                              !.requests = @ + 1]
    /\ UNCHANGED <<server, discoveryVars, installerVars>>

\* the response callback on a 200: the body is collected and the promise resolved
Resolve ==
    /\ fetch.state = "requesting"
    /\ server[fetch.url].kind = "response"
    /\ ~IsRedirect(server[fetch.url])
    /\ server[fetch.url].status = 200
    /\ fetch' = [state |-> "resolved", url |-> fetch.url, requests |-> fetch.requests]
    /\ UNCHANGED <<server, discoveryVars, installerVars>>

\* the promise is rejected: any other status code, a socket error or the timeout
Reject ==
    /\ fetch.state = "requesting"
    /\ \/ server[fetch.url].kind = "error"
       \/ /\ server[fetch.url].kind = "response"
          /\ ~IsRedirect(server[fetch.url])
          /\ server[fetch.url].status # 200
    /\ fetch' = [state |-> "rejected",
                 error |-> IF server[fetch.url].kind = "error" THEN "request failed"
                           ELSE "HTTP status",
                 requests |-> fetch.requests]
    /\ UNCHANGED <<server, discoveryVars, installerVars>>

NextFetch == FetchUrl \/ FollowRedirect \/ Resolve \/ Reject

SpecFetch == InitFetch /\ [][NextFetch]_vars

\* C4: a fetch follows a bounded number of redirects: whatever the servers answer, it
\* issues at most 11 requests (the first one and 10 redirect hops) before it ends
\* with a result or an error.
C4_BoundedRedirects ==
    fetch.state # "idle" => fetch.requests <= 11

----------------------------------------------------------------------------
(* The file system: a function from paths to contents.  A directory made   *)
(* by mkdir is an entry of its own; a directory also exists as long as     *)
(* something is below it.  mkdir and rm -rf are taken to succeed.          *)

Sep(plat) == IF plat = "win32" THEN "\\" ELSE "/"

\* path.join(a, b)
PathJoin(plat, a, b) == a \o Sep(plat) \o b

\* path.dirname(p)
Dirname(plat, p) == SplitLast(p, Sep(plat)).before

Dir == [kind |-> "dir"]
File(data) == [kind |-> "file", data |-> data]

\* q is p or lies below p
Under(plat, q, p) == q = p \/ StartsWith(q, p \o Sep(plat))

\* fs.existsSync(p), stat(p) succeeding
Exists(plat, f, p) == \E q \in DOMAIN f : Under(plat, q, p)

\* mkdir(p, { recursive: true })
Mkdirp(f, p) == IF p \in DOMAIN f THEN f ELSE (p :> Dir) @@ f

\* writeFile(p, data)
WriteFile(f, p, content) == (p :> content) @@ f

\* rm -rf p, fs.rm(p, { recursive: true, force: true })
RemoveAll(plat, f, p) == [q \in {r \in DOMAIN f : ~Under(plat, r, p)} |-> f[q]]

\* fs.copyFileSync(from, to), from being a file
CopyFile(f, from, to) == (to :> f[from]) @@ f

\* fs.renameSync(from, to), from being a file
Rename(f, from, to) ==
    [q \in (DOMAIN f \ {from}) \cup {to} |-> IF q = to THEN f[from] ELSE f[q]]

\* readdir(dir): the names directly below dir, in no order
Readdir(plat, f, dir) ==
    { BeforeFirst(From(q, Len(dir) + 2), Sep(plat)) :
        q \in {r \in DOMAIN f : StartsWith(r, dir \o Sep(plat))} }

----------------------------------------------------------------------------
(* icon.js: download and conversion.  e is the environment of one run: the *)
(* network of the discovery (e.net), the answer to the icon request        *)
(* (e.icon), whether writing the download works (e.writeOk), what the      *)
(* macOS SVG command does (e.svgTool), whether the platform's conversion   *)
(* tools work (e.toolOk) and whether fs.copyFileSync works (e.copyOk).     *)

\* the extension downloadIcon picks from the content type and the URL
IconExtension(contentType, iconUrl) ==
    IF Includes(contentType, "svg") THEN ".svg"
    ELSE IF Includes(contentType, "ico") \/ EndsWith(iconUrl, ".ico") THEN ".ico"
    ELSE IF Includes(contentType, "jpeg") \/ Includes(contentType, "jpg") THEN ".jpg"
    ELSE IF EndsWith(iconUrl, ".svg") THEN ".svg"
    ELSE ".png"

\* a downloadIcon that asks for the icon a second time when the first request failed
downloadIconRetrying(plat, iconUrl, tempDir, f, e) ==
    LET Written(made, iconPath, ext, data) ==
            IF e.writeOk
            THEN [fs |-> WriteFile(made, iconPath, File(data)), success |-> TRUE,
                  path |-> iconPath, extension |-> ext, requests |-> <<iconUrl>>]
            ELSE [fs |-> made, success |-> FALSE, error |-> "writeFile failed",
                  requests |-> <<iconUrl>>]
        Named(ext, data) ==
            Written(Mkdirp(f, tempDir), PathJoin(plat, tempDir, "icon" \o ext), ext, data)
        Got(res) ==
            IF ~res.ok
            THEN [fs |-> f, success |-> FALSE, error |-> "fetch failed",
                  requests |-> <<iconUrl, iconUrl>>]
            ELSE Named(IconExtension(res.contentType, iconUrl), res.data)
    IN Got(FetchResult(iconUrl, e.icon))

\* downloadIcon(iconUrl, tempDir): everything thrown is caught and reported; requests
\* are the URLs it hands to fetchUrl
downloadIcon(plat, iconUrl, tempDir, f, e) ==
    LET Written(made, iconPath, ext, data) ==
            IF e.writeOk
            THEN [fs |-> WriteFile(made, iconPath, File(data)), success |-> TRUE,
                  path |-> iconPath, extension |-> ext, requests |-> <<iconUrl>>]
            ELSE [fs |-> made, success |-> FALSE, error |-> "writeFile failed",
                  requests |-> <<iconUrl>>]
        Named(ext, data) ==
            Written(Mkdirp(f, tempDir), PathJoin(plat, tempDir, "icon" \o ext), ext, data)
        Got(res) ==
            IF ~res.ok
            THEN [fs |-> f, success |-> FALSE, error |-> "fetch failed",
                  requests |-> <<iconUrl>>]
            ELSE Named(IconExtension(res.contentType, iconUrl), res.data)
    IN Got(FetchResult(iconUrl, e.icon))

\* what a conversion or prepareIcon hands back, with the file system it leaves
IconResult(f, success, path, note) ==
    [fs |-> f, threw |-> FALSE, success |-> success, path |-> path, note |-> note]

\* an exception leaving prepareIcon
IconThrew(f) == [fs |-> f, threw |-> TRUE, success |-> FALSE, path |-> "", note |-> ""]

\* what a conversion tool writes: the image of the file at inputPath in another format
Transcoded(format, f, inputPath) == File(format \o " of " \o f[inputPath].data)

\* convertToIcns(inputPath, outputPath): sips fails on a missing input; the iconset
\* directory is removed on both paths
convertToIcns(plat, inputPath, outputPath, f, e) ==
    LET Staged(staged, tempDir) ==
            IF inputPath \in DOMAIN staged /\ e.toolOk
            THEN IconResult(RemoveAll(plat, WriteFile(staged, outputPath,
                                                      Transcoded("ICNS", staged, inputPath)),
                                      tempDir),
                            TRUE, outputPath, "")
            ELSE IconResult(RemoveAll(plat, staged, tempDir), FALSE, "", "")
        In(tempDir) == Staged(Mkdirp(f, tempDir), tempDir)
    IN In(PathJoin(plat, Dirname(plat, outputPath), "icon.iconset"))

PngNote == "Saved as PNG (ImageMagick not available for ICO conversion)"

\* a convertToIco without the copy fallback
convertToIcoNoFallback(plat, inputPath, outputPath, f, e) ==
    IF inputPath \in DOMAIN f /\ e.toolOk
    THEN IconResult(WriteFile(f, outputPath, Transcoded("ICO", f, inputPath)), TRUE,
                    outputPath, "")
    ELSE IconResult(f, FALSE, "", "")

\* convertToIco(inputPath, outputPath): ImageMagick, else a copy named .png
convertToIco(plat, inputPath, outputPath, f, e) ==
    LET Copied(pngPath) ==
            IF inputPath \in DOMAIN f /\ e.copyOk
            THEN IconResult(CopyFile(f, inputPath, pngPath), TRUE, pngPath, PngNote)
            ELSE IconResult(f, FALSE, "", "")
    IN IF inputPath \in DOMAIN f /\ e.toolOk
       THEN IconResult(WriteFile(f, outputPath, Transcoded("ICO", f, inputPath)), TRUE,
                       outputPath, "")
       ELSE Copied(ReplaceFirst(outputPath, ".ico", ".png"))

\* the SVG step of the macOS branch: qlmanage -t leaves <name>.png in the directory
\* and ends the command, else sips writes pngPath; either way the path becomes
\* pngPath, and a failing command is caught and leaves the path alone
SvgStep(plat, d, tempDir, e) ==
    IF d.extension # ".svg" \/ e.svgTool = "none"
    THEN [fs |-> d.fs, path |-> d.path, rasterized |-> FALSE]
    ELSE IF e.svgTool = "qlmanage"
    THEN [fs |-> WriteFile(d.fs, d.path \o ".png", Transcoded("PNG", d.fs, d.path)),
          path |-> PathJoin(plat, tempDir, "icon.png"), rasterized |-> TRUE]
    ELSE [fs |-> WriteFile(d.fs, PathJoin(plat, tempDir, "icon.png"),
                           Transcoded("PNG", d.fs, d.path)),
          path |-> PathJoin(plat, tempDir, "icon.png"), rasterized |-> TRUE]

\* the Linux branch: a copy of a .png download, else sips || convert, else a copy;
\* a failing fs.copyFileSync throws out of prepareIcon
LinuxPng(d, pngPath, e) ==
    IF d.extension # ".png" /\ e.toolOk
    THEN IconResult(WriteFile(d.fs, pngPath, Transcoded("PNG", d.fs, d.path)), TRUE,
                    pngPath, "")
    ELSE IF e.copyOk THEN IconResult(CopyFile(d.fs, d.path, pngPath), TRUE, pngPath, "")
    ELSE IconThrew(d.fs)

\* what the macOS branch hands to convertToIcns: the download's extension, whether
\* the SVG command ended well, the input path and whether a file is there
NotResized == [extension |-> "", rasterized |-> FALSE, path |-> "", exists |-> FALSE]
Resized(d, svg) ==
    [extension |-> d.extension, rasterized |-> svg.rasterized, path |-> svg.path,
     exists |-> svg.path \in DOMAIN svg.fs]

\* prepareIcon(websiteUrl, outputDir, platform); requests are the URLs handed to
\* fetchUrl on the way, in their order, and resized is the input of convertToIcns
prepareIcon(urlString, outputDir, plat, f, e) ==
    LET Logged(r, requests) == [requests |-> requests] @@ r @@ [resized |-> NotResized]
        Cleaned(r, tempDir) ==
            IF r.threw THEN r ELSE [r EXCEPT !.fs = RemoveAll(plat, r.fs, tempDir)]
        Darwin(d, svg) ==
            [resized |-> Resized(d, svg)]
                @@ convertToIcns(plat, svg.path, PathJoin(plat, outputDir, "AppIcon.icns"),
                                 svg.fs, e)
        Converted(d, tempDir) ==
            IF plat = "darwin" THEN Darwin(d, SvgStep(plat, d, tempDir, e))
            ELSE IF plat = "win32"
            THEN convertToIco(plat, d.path, PathJoin(plat, outputDir, "app.ico"), d.fs, e)
            ELSE IF plat = "linux"
            THEN LinuxPng(d, PathJoin(plat, outputDir, "icon.png"), e)
            ELSE IconResult(d.fs, FALSE, "", "")
        Downloaded(d, tempDir) ==
            IF ~d.success THEN IconResult(d.fs, FALSE, "", "")
            ELSE Cleaned(Converted(d, tempDir), tempDir)
        Asked(best, d, tempDir) ==
            Logged(Downloaded(d, tempDir), best.requests \o d.requests)
        In(best, tempDir) ==
            IF best.state # "returned" THEN Logged(IconThrew(f), best.requests)
            ELSE Asked(best, downloadIcon(plat, best.url, tempDir, f, e), tempDir)
    IN In(getBestIconUrl(urlString, e.net), PathJoin(plat, outputDir, ".icon-temp"))

----------------------------------------------------------------------------
(* installer.js: where the apps go                                         *)

Platforms == {"darwin", "win32", "linux"}

\* process.env.HOME, process.env.APPDATA
HomeDir(plat) == IF plat = "darwin" THEN "/Users/me" ELSE "/home/me"
AppData == "C:\\Users\\me\\AppData\\Roaming"

BrowserIds == {"chrome", "edge", "brave", "chromium", "comet", "atlas"}

\* the word each browser's directory starts with
BrowserDirName ==
    [id \in BrowserIds |->
        IF id = "chrome" THEN "Chrome" ELSE IF id = "edge" THEN "Edge"
        ELSE IF id = "brave" THEN "Brave" ELSE IF id = "chromium" THEN "Chromium"
        ELSE IF id = "comet" THEN "Comet" ELSE "Atlas"]

\* expandHomePath(filepath)
expandHomePath(plat, filepath) ==
    IF StartsWith(filepath, "~") THEN HomeDir(plat) \o From(filepath, 2) ELSE filepath

\* getWebAppDirectory(browser) and getWebAppDirectoryById(browserId): the directories
\* table, platformDirs[browserId] || platformDirs.chrome
getWebAppDirectoryById(plat, browserId) ==
    LET Of(id) ==
            IF plat = "darwin"
            THEN "~/Applications/" \o BrowserDirName[id] \o " Apps.localized"
            ELSE IF plat = "win32"
            THEN AppData \o "\\Microsoft\\Windows\\Start Menu\\Programs\\"
                    \o BrowserDirName[id] \o " Apps"
            ELSE "~/.local/share/applications"
    IN expandHomePath(plat, Of(IF browserId \in BrowserIds THEN browserId ELSE "chrome"))

\* getBrowserName(browserId)
getBrowserName(browserId) ==
    IF browserId = "chrome" THEN "Google Chrome"
    ELSE IF browserId = "edge" THEN "Microsoft Edge"
    ELSE IF browserId = "brave" THEN "Brave Browser"
    ELSE IF browserId = "chromium" THEN "Chromium"
    ELSE IF browserId = "comet" THEN "Comet Browser"
    ELSE IF browserId = "atlas" THEN "Atlas Browser"
    ELSE browserId

\* the directory of the icons on Linux
LinuxIconDir == expandHomePath("linux", "~/.local/share/icons/webnest")

\* BROWSER_CONFIGS[id].paths[platform][0], the path detectBrowser finds first
BrowserPath(plat, id) ==
    IF plat = "darwin"
    THEN IF id = "brave" THEN "/Applications/Brave Browser.app/Contents/MacOS/Brave Browser"
         ELSE "/Applications/Google Chrome.app/Contents/MacOS/Google Chrome"
    ELSE IF plat = "win32"
    THEN IF id = "brave"
         THEN "C:\\Program Files\\BraveSoftware\\Brave-Browser\\Application\\brave.exe"
         ELSE "C:\\Program Files\\Google\\Chrome\\Application\\chrome.exe"
    ELSE IF id = "brave" THEN "/usr/bin/brave" ELSE "/usr/bin/google-chrome"

\* what detectBrowser hands to installWebApp
Browser(plat, id) == [id |-> id, name |-> getBrowserName(id), path |-> BrowserPath(plat, id)]

IconNote == "Could not fetch icon from website. "

\* an installer that never says the icon is missing
IconNoteNever(r) == ""

\* iconNote after the try/catch around prepareIcon: empty when it returned success
IconNoteOf(r) == IF ~r.threw /\ r.success THEN "" ELSE IconNote

\* what a create...App hands back, with the file system it leaves; icon says how
\* prepareIcon ended
Created(f, appPath, r, note) ==
    [fs |-> f, success |-> TRUE, appPath |-> appPath, note |-> IconNoteOf(r) \o note,
     icon |-> IF r.threw THEN "threw" ELSE IF r.success THEN "ok" ELSE "failed"]

\* createMacOSApp({ url, appName, browser, appDir }); writing the bundle's files and
\* lsregister are taken to work
createMacOSApp(url, appName, browser, appDir, f, e) ==
    LET Plist(safeName) ==
            File([CFBundleExecutable |-> safeName,
                  CFBundleIdentifier |-> generateAppId(url, "0"),
                  CFBundleName |-> appName, CFBundleIconFile |-> "AppIcon"])
        Launcher ==
            File("#!/bin/bash\nexec \"" \o browser.path \o "\" --app=\"" \o url
                    \o "\" \"$@\"\n")
        Written(r, appPath, safeName) ==
            Created(WriteFile(WriteFile(r.fs, appPath \o "/Contents/Info.plist",
                                        Plist(safeName)),
                              appPath \o "/Contents/MacOS/" \o safeName, Launcher),
                    appPath, r,
                    "The app should appear in Spotlight search. If not, try restarting Spotlight (killall mds).")
        Bundle(appPath, safeName) ==
            Written(prepareIcon(url, appPath \o "/Contents/Resources", "darwin",
                                Mkdirp(Mkdirp(f, appPath \o "/Contents/MacOS"),
                                       appPath \o "/Contents/Resources"), e),
                    appPath, safeName)
        Named(safeName) == Bundle(PathJoin("darwin", appDir, safeName \o ".app"), safeName)
    IN Named(sanitizeAppName(appName))

\* createWindowsApp({ url, appName, browser, appDir }); the PowerShell script is
\* written to TEMP, run and unlinked, and is taken to create the shortcut
createWindowsApp(url, appName, browser, appDir, f, e) ==
    LET Shortcut(iconPath) ==
            File([TargetPath |-> browser.path, Arguments |-> "--app=" \o url,
                  Description |-> appName \o " - Web App", IconLocation |-> iconPath])
        Saved(r, shortcutPath) ==
            Created(WriteFile(r.fs, shortcutPath,
                              Shortcut(IF ~r.threw /\ r.success THEN r.path ELSE "")),
                    shortcutPath, r, "The app should appear in the Start Menu search.")
        Named(safeName) ==
            Saved(prepareIcon(url, appDir, "win32", Mkdirp(f, appDir), e),
                  PathJoin("win32", appDir, safeName \o ".lnk"))
    IN Named(sanitizeAppName(appName))

\* the text createLinuxApp writes
DesktopContent(url, appName, safeName, browser, iconPath) ==
    "[Desktop Entry]\nVersion=1.0\nType=Application\nName=" \o appName
        \o "\nComment=" \o appName \o " - Web App created by WebNest\nExec=\""
        \o browser.path \o "\" --app=\"" \o url \o "\"\nIcon=" \o iconPath
        \o "\nTerminal=false\nCategories=Network;WebBrowser;\nStartupWMClass=" \o safeName
        \o "\nStartupNotify=true\n"

\* createLinuxApp({ url, appName, browser, appDir }); writing the .desktop file and
\* update-desktop-database are taken to work
createLinuxApp(url, appName, browser, appDir, f, e) ==
    LET Desktop(r, g, desktopFilePath, iconPath) ==
            Created(WriteFile(g, desktopFilePath,
                              File(DesktopContent(url, appName, sanitizeAppName(appName),
                                                  browser, iconPath))),
                    desktopFilePath, r,
                    "The app should appear in your application menu. You may need to log out and log back in for it to appear.")
        Renamed(r, desktopFilePath, newIconPath) ==
            IF ~r.threw /\ r.success
            THEN Desktop(r, Rename(r.fs, r.path, newIconPath), desktopFilePath, newIconPath)
            ELSE Desktop(r, r.fs, desktopFilePath, "web-browser")
        Identified(appId) ==
            Renamed(prepareIcon(url, LinuxIconDir, "linux",
                                Mkdirp(Mkdirp(f, appDir), LinuxIconDir), e),
                    PathJoin("linux", appDir, appId \o ".desktop"),
                    PathJoin("linux", LinuxIconDir, appId \o ".png"))
    IN Identified(generateAppId(url, "0"))

\* installWebApp({ url, appName, browser }) on process.platform = plat
installWebApp(plat, url, appName, browser, f, e) ==
    LET In(appDir, made) ==
            IF plat = "darwin" THEN createMacOSApp(url, appName, browser, appDir, made, e)
            ELSE IF plat = "win32"
            THEN createWindowsApp(url, appName, browser, appDir, made, e)
            ELSE createLinuxApp(url, appName, browser, appDir, made, e)
        At(appDir) == In(appDir, Mkdirp(f, appDir))
    IN At(getWebAppDirectoryById(plat, browser.id))

\* the outcomes of uninstallWebApp(appName, browserId) on process.platform = plat:
\* files.find takes the first match in readdir's order, which is any order, so every
\* matching name can be the one it finds; rmOk says whether fs.rm works, and when it
\* throws nothing is taken to have been deleted
uninstallWebApp(plat, appName, browserId, f, rmOk) ==
    LET NotFound(error) ==
            [fs |-> f, success |-> FALSE, notFound |-> TRUE, appPath |-> "",
             error |-> error]
        NoApp ==
            NotFound("App \"" \o appName \o "\" not found in " \o getBrowserName(browserId)
                        \o " apps")
        Removed(appPath) ==
            IF rmOk
            THEN [fs |-> RemoveAll(plat, f, appPath), success |-> TRUE,
                  notFound |-> FALSE, appPath |-> appPath, error |-> ""]
            ELSE [fs |-> f, success |-> FALSE, notFound |-> FALSE, appPath |-> "",
                  error |-> "Failed to remove app: EACCES"]
        Found(appDir, matches) ==
            IF matches = {} THEN {NoApp}
            ELSE {Removed(PathJoin(plat, appDir, m)) : m \in matches}
        ByName(appDir, fileName) ==
            IF Exists(plat, f, PathJoin(plat, appDir, fileName))
            THEN {Removed(PathJoin(plat, appDir, fileName))}
            ELSE Found(appDir, {n \in Readdir(plat, f, appDir) :
                                    ToLowerCase(n) = ToLowerCase(fileName)})
        Verified(appPath, safeName) ==
            /\ appPath \in DOMAIN f
            /\ f[appPath].kind = "file"
            /\ Includes(f[appPath].data, safeName) \/ Includes(f[appPath].data, "WebNest")
        Checked(appPath, safeName) ==
            IF Verified(appPath, safeName) THEN Removed(appPath) ELSE NoApp
        Picked(appDir, safeName, matches) ==
            IF matches = {} THEN {NoApp}
            ELSE {Checked(PathJoin(plat, appDir, m), safeName) : m \in matches}
        Desktop(appDir, safeName, lowerName) ==
            Picked(appDir, safeName,
                   {n \in Readdir(plat, f, appDir) :
                        /\ EndsWith(n, ".desktop")
                        /\ \/ Includes(ToLowerCase(ReplaceFirst(n, ".desktop", "")), lowerName)
                           \/ Includes(ToLowerCase(n), "webnest")})
        In(appDir, safeName) ==
            IF ~Exists(plat, f, appDir)
            THEN {NotFound("No " \o getBrowserName(browserId) \o " apps directory found")}
            ELSE IF plat = "darwin" THEN ByName(appDir, safeName \o ".app")
            ELSE IF plat = "win32" THEN ByName(appDir, safeName \o ".lnk")
            ELSE Desktop(appDir, safeName, ToLowerCase(safeName))
    IN In(getWebAppDirectoryById(plat, browserId), sanitizeAppName(appName))

\* the browsers of webnest remove --all, in the order of the sweep
AllBrowsers == <<"chrome", "edge", "brave", "chromium", "comet", "atlas">>

\* the outcomes of removeWebApp(name, options) on process.platform = plat; rmFails are
\* the browsers for which fs.rm throws.  results keeps what uninstallWebApp returned
\* for each browser, shown the errors that are printed, exit the exit code
removeWebApp(plat, name, options, f, rmFails) ==
    LET browsers == IF options.all THEN AllBrowsers ELSE <<options.browser>>
        Errors(st, r) ==
            IF r.success \/ (r.notFound /\ options.all) THEN st.errors
            ELSE Append(st.errors, r.error)
        Step(st, r, browserId) ==
            [fs |-> r.fs,
             removedCount |-> IF r.success THEN st.removedCount + 1 ELSE st.removedCount,
             errors |-> Errors(st, r),
             results |-> Append(st.results,
                                [browserId |-> browserId, success |-> r.success,
                                 notFound |-> r.notFound, error |-> r.error])]
        Finish(st) ==
            [fs |-> st.fs, removedCount |-> st.removedCount, results |-> st.results,
             shown |-> IF st.removedCount = 0 THEN st.errors ELSE <<>>,
             exit |-> IF st.removedCount = 0 THEN 1 ELSE 0]
        RECURSIVE Sweep(_, _)
        Sweep(i, st) ==
            IF i > Len(browsers) THEN {Finish(st)}
            ELSE UNION {Sweep(i + 1, Step(st, r, browsers[i])) :
                            r \in uninstallWebApp(plat, name, browsers[i], st.fs,
                                                  browsers[i] \notin rmFails)}
    IN Sweep(1, [fs |-> f, removedCount |-> 0, errors |-> <<>>, results |-> <<>>])

\* listInstalledApps(browserId) on process.platform = plat: one entry per file of the
\* directory that ends in the platform's suffix, its name the file name with the first
\* occurrence of the suffix removed or, on Linux, what follows the first "Name=" up to
\* the end of the line; the order is readdir's, so the entries are given as a set
listInstalledApps(plat, browserId, f) ==
    LET Entry(name, filePath) ==
            [name |-> name, path |-> filePath, browser |-> getBrowserName(browserId),
             browserId |-> browserId]
        Line(rest) == BeforeFirst(rest, "\n")
        NameOf(content) ==
            IF StartsWith(content, "Name=") THEN Line(From(content, 6))
            ELSE IF Includes(content, "\nName=")
            THEN Line(SplitFirst(content, "\nName=").after)
            ELSE ""
        Named(name, filePath) == IF name = "" THEN {} ELSE {Entry(name, filePath)}
        Read(filePath) ==
            IF filePath \in DOMAIN f /\ f[filePath].kind = "file"
            THEN Named(NameOf(f[filePath].data), filePath)
            ELSE {}
        Of(file, filePath) ==
            IF plat = "darwin"
            THEN IF EndsWith(file, ".app")
                 THEN {Entry(ReplaceFirst(file, ".app", ""), filePath)} ELSE {}
            ELSE IF plat = "win32"
            THEN IF EndsWith(file, ".lnk")
                 THEN {Entry(ReplaceFirst(file, ".lnk", ""), filePath)} ELSE {}
            ELSE IF EndsWith(file, ".desktop") THEN Read(filePath) ELSE {}
        In(appDir) ==
            IF ~Exists(plat, f, appDir) THEN {}
            ELSE UNION {Of(file, PathJoin(plat, appDir, file)) :
                            file \in Readdir(plat, f, appDir)}
    IN In(getWebAppDirectoryById(plat, browserId))

----------------------------------------------------------------------------
(* The icon pipeline on its own: one prepareIcon per behaviour             *)

InstallUrls == {"https://github.com/", "https://open.spotify.com/"}

\* the pages of the discovery: unreachable (the favicon fallback), a page with an
\* apple-touch-icon, a page with an SVG icon, and a page with both and with a
\* manifest that cannot be fetched
IconNets ==
    { [page |-> Rejected, manifest |-> Rejected],
      [page |-> OkResponse(<<LinkTag("apple-touch-icon", "/apple.png", "")>>),
       manifest |-> Rejected],
      [page |-> OkResponse(<<LinkTag("icon", "/logo.svg", "")>>), manifest |-> Rejected],
      [page |-> OkResponse(<<LinkTag("apple-touch-icon", "/apple.png", ""),
                             LinkTag("icon", "/logo.svg", ""),
                             LinkTag("manifest", "/manifest.json", "")>>),
       manifest |-> Rejected] }

\* the answers to the icon request that carry an image
IconResponses ==
    { [ok |-> TRUE, data |-> "PNG", contentType |-> "image/png"],
      [ok |-> TRUE, data |-> "SVG", contentType |-> "image/svg+xml"] }

SvgTools == {"qlmanage", "sips", "none"}

Env(n, icon, writeOk, svgTool, toolOk, copyOk) ==
    [kind |-> "env", net |-> n, icon |-> icon, writeOk |-> writeOk, svgTool |-> svgTool,
     toolOk |-> toolOk, copyOk |-> copyOk]

\* the environments of one run on plat; an outcome the run never gets to ask for
\* (anything past a failed download, the SVG command and fs.copyFileSync where the
\* platform's branch has none) is not varied
Envs(plat) ==
    {Env(n, Rejected, TRUE, "none", TRUE, TRUE) : n \in IconNets}
        \cup {Env(n, i, FALSE, "none", TRUE, TRUE) : n \in IconNets, i \in IconResponses}
        \cup {Env(n, i, TRUE, s, t, c) :
                n \in IconNets, i \in IconResponses,
                s \in IF plat = "darwin" THEN SvgTools ELSE {"none"},
                t \in BOOLEAN,
                c \in IF plat = "darwin" THEN {TRUE} ELSE BOOLEAN}

\* the outputDir the installer hands to prepareIcon on each platform
IconOutputDir(plat) ==
    IF plat = "darwin"
    THEN getWebAppDirectoryById(plat, "chrome") \o "/GitHub.app/Contents/Resources"
    ELSE IF plat = "win32" THEN getWebAppDirectoryById(plat, "chrome")
    ELSE LinuxIconDir

InitIcon ==
    /\ platform \in Platforms
    /\ websiteUrl \in InstallUrls
    /\ env \in Envs(platform)
    /\ fs = Mkdirp(<<>>, IconOutputDir(platform))
    /\ history = <<>>
    /\ last = [op |-> "none"]
    /\ running = <<>>
    /\ net = [page |-> Rejected, manifest |-> Rejected]
    /\ discovery = [state |-> "idle"]
    /\ server = <<>>
    /\ fetch = [state |-> "idle"]

\* prepareIcon(websiteUrl, outputDir, platform), up to its return or its throw
PrepareIcon ==
    /\ last.op = "none"
    /\ LET Done(r) ==
            /\ fs' = r.fs
            /\ last' = [op |-> "prepareIcon", threw |-> r.threw, success |-> r.success,
                        path |-> r.path, note |-> r.note, requests |-> r.requests,
                        resized |-> r.resized]
       IN Done(prepareIcon(websiteUrl, IconOutputDir(platform), platform, fs, env))
    /\ UNCHANGED <<discoveryVars, fetchVars, running, platform, env, history>>

\* the icon URLs of a download on its own: with the suffixes downloadIcon looks at,
\* with another one and with none
DownloadUrls ==
    {"https://github.com/favicon.ico", "https://github.com/logo.svg",
     "https://github.com/apple.png", "https://github.com/icon"}

\* the content types of the answers to it
ContentTypes ==
    {"image/png", "image/svg+xml", "image/x-icon", "image/vnd.microsoft.icon",
     "image/jpeg", "image/jpg", "application/octet-stream", ""}

\* downloadIcon(iconUrl, tempDir) on its own, with the write working as env says
DownloadIcon ==
    /\ last.op = "none"
    /\ \E iconUrl \in DownloadUrls, contentType \in ContentTypes :
         \E d \in {downloadIcon(platform, iconUrl,
                                PathJoin(platform, IconOutputDir(platform), ".icon-temp"),
                                fs,
                                [env EXCEPT !.icon = [ok |-> TRUE, data |-> "IMG",
                                                      contentType |-> contentType]])} :
            /\ fs' = d.fs
            /\ last' = [op |-> "downloadIcon", iconUrl |-> iconUrl,
                        contentType |-> contentType, success |-> d.success,
                        extension |-> IF d.success THEN d.extension ELSE ""]
    /\ UNCHANGED <<discoveryVars, fetchVars, running, platform, env, history>>

NextIcon == PrepareIcon \/ DownloadIcon

SpecIcon == InitIcon /\ [][NextIcon]_vars

\* C3: on every exit path of prepareIcon (a conversion that worked, a download that
\* failed after the temporary directory was made, a conversion that failed, an
\* exception while copying) neither the .icon-temp directory nor the icon.iconset
\* directory exists when prepareIcon is left.
C3_TempDirsRemoved ==
    last.op = "prepareIcon" =>
        /\ ~Exists(platform, fs, PathJoin(platform, IconOutputDir(platform), ".icon-temp"))
        /\ ~Exists(platform, fs, PathJoin(platform, IconOutputDir(platform), "icon.iconset"))

----------------------------------------------------------------------------
(* One install on a fresh machine, in every environment of the pipeline    *)

AppNames == {"GitHub", "Spotify"}
InstallBrowsers == {"chrome", "brave"}

\* a launcher no WebNest wrote
ForeignDesktop == File("[Desktop Entry]\nType=Application\nName=Firefox\nExec=firefox %u\n")

\* the install directories a machine starts with: none, chrome's being there and
\* empty, and on Linux also one with another program's launcher in it
InitialFileSystems(plat) ==
    {<<>>, Mkdirp(<<>>, getWebAppDirectoryById(plat, "chrome"))}
        \cup IF plat = "linux"
             THEN {WriteFile(Mkdirp(<<>>, getWebAppDirectoryById(plat, "chrome")),
                             getWebAppDirectoryById(plat, "chrome") \o "/firefox.desktop",
                             ForeignDesktop)}
             ELSE {}

InitInstallOnce ==
    /\ platform \in Platforms
    /\ fs \in InitialFileSystems(platform)
    /\ env \in Envs(platform)
    /\ history = <<>>
    /\ last = [op |-> "none"]
    /\ InitIdle
    /\ server = <<>>
    /\ fetch = [state |-> "idle"]

\* what an install leaves in last
Installed(url, appName, id, r, before) ==
    [op |-> "install", url |-> url, appName |-> appName, browserId |-> id,
     success |-> r.success, appPath |-> r.appPath, note |-> r.note, icon |-> r.icon,
     notFound |-> FALSE, removed |-> DOMAIN before \ DOMAIN r.fs]

\* what history keeps of an install
Launched(url, appName, id, r, before) ==
    [url |-> url, appName |-> appName, browserId |-> id, appPath |-> r.appPath,
     created |-> DOMAIN r.fs \ DOMAIN before]

\* webnest <url> --name <appName> --browser <id>, once the URL is validated and the
\* browser detected: installWebApp, whole, in the environment env
InstallOnce ==
    /\ last.op = "none"
    /\ \E url \in InstallUrls, appName \in AppNames, id \in InstallBrowsers :
            LET Done(r) ==
                    /\ fs' = r.fs
                    /\ last' = Installed(url, appName, id, r, fs)
                    /\ history' = Append(history, Launched(url, appName, id, r, fs))
            IN /\ validateUrl(url)
               /\ Done(installWebApp(platform, url, appName, Browser(platform, id), fs, env))
    /\ UNCHANGED <<discoveryVars, fetchVars, running, platform, env>>

NextInstallOnce == InstallOnce

SpecInstallOnce == InitInstallOnce /\ [][NextInstallOnce]_vars

\* where the launcher of the last install belongs, written out
ExpectedLauncher ==
    LET B == IF last.browserId = "brave" THEN "Brave" ELSE "Chrome"
    IN IF platform = "darwin"
       THEN "/Users/me/Applications/" \o B \o " Apps.localized/" \o last.appName \o ".app"
       ELSE IF platform = "win32"
       THEN "C:\\Users\\me\\AppData\\Roaming\\Microsoft\\Windows\\Start Menu\\Programs\\"
                \o B \o " Apps\\" \o last.appName \o ".lnk"
       ELSE IF last.url = "https://github.com/"
       THEN "/home/me/.local/share/applications/com.webnest.github-com-.desktop"
       ELSE "/home/me/.local/share/applications/com.webnest.open-spotify-com-.desktop"

\* some stage of the icon pipeline failed: the page fetch of the discovery, the
\* download or its write, a conversion tool or the copy
PipelineFailure ==
    ~env.net.page.ok \/ ~env.icon.ok \/ ~env.writeOk \/ ~env.toolOk \/ ~env.copyOk

----------------------------------------------------------------------------
(* The installer: installs and removals on one machine                     *)

\* installs in one behaviour
MaxInstalls == 1

\* the names of a session: the two of the single install and one that
\* sanitizeAppName changes
SessionNames == AppNames \cup {"Cash.app: Pay"}

RemoveNames == SessionNames \cup {"Firefox"}

\* the environments of the installs of a session: all is well, or there is no
\* network at all
SessionEnvs ==
    { Env([page |-> OkResponse(<<LinkTag("apple-touch-icon", "/apple.png", "")>>),
           manifest |-> Rejected],
          [ok |-> TRUE, data |-> "PNG", contentType |-> "image/png"], TRUE, "none", TRUE,
          TRUE),
      Env([page |-> Rejected, manifest |-> Rejected], Rejected, TRUE, "none", TRUE, TRUE) }

Init ==
    /\ platform \in Platforms
    /\ fs \in InitialFileSystems(platform)
    /\ env = [kind |-> "none"]
    /\ history = <<>>
    /\ last = [op |-> "none"]
    /\ InitIdle
    /\ server = <<>>
    /\ fetch = [state |-> "idle"]

\* webnest <url> --name <appName> --browser <id>: installWebApp, whole
Install ==
    /\ Len(history) < MaxInstalls
    /\ \E url \in InstallUrls, appName \in SessionNames, id \in InstallBrowsers,
          e \in SessionEnvs :
            LET Done(r) ==
                    /\ fs' = r.fs
                    /\ last' = Installed(url, appName, id, r, fs)
                    /\ history' = Append(history, Launched(url, appName, id, r, fs))
            IN /\ validateUrl(url)
               /\ Done(installWebApp(platform, url, appName, Browser(platform, id), fs, e))
               /\ env' = e
    /\ UNCHANGED <<discoveryVars, fetchVars, running, platform>>

\* webnest remove <appName> --browser <id>: uninstallWebApp, whole
Uninstall ==
    /\ \E appName \in RemoveNames, id \in InstallBrowsers, rmOk \in BOOLEAN :
         \E r \in uninstallWebApp(platform, appName, id, fs, rmOk) :
            /\ fs' = r.fs
            /\ last' = [op |-> "uninstall", url |-> "", appName |-> appName,
                        browserId |-> id, success |-> r.success, appPath |-> r.appPath,
                        note |-> r.error, icon |-> "", notFound |-> r.notFound,
                        removed |-> DOMAIN fs \ DOMAIN r.fs]
    /\ UNCHANGED <<discoveryVars, fetchVars, running, platform, env, history>>

\* webnest installed --browser <id>: listInstalledApps, whole
List ==
    /\ \E id \in InstallBrowsers :
            last' = [op |-> "list", browserId |-> id,
                     apps |-> listInstalledApps(platform, id, fs)]
    /\ UNCHANGED <<discoveryVars, fetchVars, running, platform, env, fs, history>>

Next == Install \/ Uninstall \/ List

Spec == Init /\ [][Next]_vars

\* no install was given a name that sanitizes to the same letters, whatever their case
NeverInstalled(appName) ==
    \A i \in 1..Len(history) :
        ToLowerCase(sanitizeAppName(history[i].appName))
            # ToLowerCase(sanitizeAppName(appName))

\* C10: removing an app name that was never installed returns success=false with
\* notFound=true and deletes nothing, on every platform and whatever the install
\* directory holds.
C10_RemoveUnknownIsNotFound ==
    (last.op = "uninstall" /\ NeverInstalled(last.appName))
        => /\ ~last.success
           /\ last.notFound
           /\ last.removed = {}

----------------------------------------------------------------------------
(* webnest remove on a machine with up to two installs of one name          *)

\* installs in one behaviour of the removals
MaxReinstalls == 2

\* the name of the installs and of the removals
SweepNames == {"GitHub"}

\* webnest <url> --name <appName> --browser <id>, again and again: installWebApp, whole
Reinstall ==
    /\ Len(history) < MaxReinstalls
    /\ \E url \in InstallUrls, appName \in SweepNames, id \in InstallBrowsers,
          e \in SessionEnvs :
            LET Done(r) ==
                    /\ fs' = r.fs
                    /\ last' = Installed(url, appName, id, r, fs)
                    /\ history' = Append(history, Launched(url, appName, id, r, fs))
            IN /\ validateUrl(url)
               /\ Done(installWebApp(platform, url, appName, Browser(platform, id), fs, e))
               /\ env' = e
    /\ UNCHANGED <<discoveryVars, fetchVars, running, platform>>

\* webnest remove <name> [--browser <id>] [--all]: removeWebApp, whole
RemoveWebApp ==
    /\ \E name \in SweepNames, all \in BOOLEAN, id \in InstallBrowsers,
          rmFails \in SUBSET InstallBrowsers :
         \E r \in removeWebApp(platform, name, [all |-> all, browser |-> id], fs, rmFails) :
            /\ fs' = r.fs
            /\ last' = [op |-> "remove", name |-> name, all |-> all, browserId |-> id,
                        removedCount |-> r.removedCount, results |-> r.results,
                        shown |-> r.shown, exit |-> r.exit]
    /\ UNCHANGED <<discoveryVars, fetchVars, running, platform, env, history>>

NextRemove == Reinstall \/ RemoveWebApp

SpecRemove == Init /\ [][NextRemove]_vars

\* C12: after any number of installs with one name for one browser, with the same or
\* with different URLs, the browser's install directory holds exactly one launcher of
\* that name, on all three platforms.
C12_OneLauncherPerName ==
    last.op = "install"
        => Cardinality({a \in listInstalledApps(platform, last.browserId, fs) :
                            a.name = last.appName}) = 1

\* C13: in a sweep over all browsers every browser is tried, no not-found result is
\* shown, and every result that is a failure without notFound is shown to the user,
\* whether or not the removal succeeded for another browser.
C13_SweepSurfacesFailures ==
    (last.op = "remove" /\ last.all)
        => /\ Len(last.results) = Len(AllBrowsers)
           /\ \A i \in 1..Len(last.results) :
                /\ last.results[i].notFound
                        => \A j \in 1..Len(last.shown) :
                                last.shown[j] # last.results[i].error
                /\ (~last.results[i].success /\ ~last.results[i].notFound)
                        => \E j \in 1..Len(last.shown) :
                                last.shown[j] = last.results[i].error

\* the icon files among the paths an install created
IconsOf(created) ==
    {q \in created : EndsWith(q, ".icns") \/ EndsWith(q, ".ico") \/ EndsWith(q, ".png")}

\* C15: once uninstallWebApp returned success for the launcher of an installed app,
\* no icon file that the install created is left, on every platform.
C15_IconRemovedWithLauncher ==
    (/\ last.op = "uninstall"
     /\ last.success
     /\ history # <<>>
     /\ last.appPath = history[1].appPath)
        => \A q \in IconsOf(history[1].created) : q \notin DOMAIN fs

\* the name an installed app is listed under: the name as given on Linux, the
\* sanitized name elsewhere
ListedName(appName) ==
    IF platform = "linux" \/ appName # "Cash.app: Pay" THEN appName ELSE "Cash.app Pay"

\* C11: once installWebApp succeeded for a name and a browser and as long as its
\* launcher is there, listInstalledApps of that browser has exactly one entry for the
\* launcher, and the entry's name is the name as given on Linux and the sanitized
\* name on macOS and Windows.
C11_InstallListRoundTrip ==
    (/\ last.op = "list"
     /\ history # <<>>
     /\ history[1].browserId = last.browserId
     /\ Exists(platform, fs, history[1].appPath))
        => /\ Cardinality({a \in last.apps : a.path = history[1].appPath}) = 1
           /\ \A a \in last.apps :
                a.path = history[1].appPath => a.name = ListedName(history[1].appName)

----------------------------------------------------------------------------
(* Two installs at the same time on Linux, each a process of its own: every *)
(* file system call of createLinuxApp and prepareIcon is a step, and the    *)
(* steps of the two interleave freely.  The network and the disk are well:  *)
(* each page names an apple-touch-icon, each icon is a PNG of its own.      *)

\* the two invocations, of different apps
ConcurrentInstalls ==
    << [url |-> "https://github.com/", appName |-> "GitHub", browserId |-> "chrome"],
       [url |-> "https://open.spotify.com/", appName |-> "Spotify",
        browserId |-> "chrome"] >>

\* what the network answers to the discovery of either
ConcurrentNet ==
    [page |-> OkResponse(<<LinkTag("apple-touch-icon", "/apple.png", "")>>),
     manifest |-> Rejected]

\* the bytes the server has at iconUrl
IconData(iconUrl) == "PNG of " \o iconUrl

\* tempDir, the downloaded file and pngPath of prepareIcon(url, iconDir, 'linux')
LinuxTempDir == PathJoin("linux", LinuxIconDir, ".icon-temp")
LinuxTempIcon == PathJoin("linux", LinuxTempDir, "icon" \o IconExtension("image/png", ""))
LinuxPngPath == PathJoin("linux", LinuxIconDir, "icon.png")

\* newIconPath and desktopFilePath of createLinuxApp
NewIconPath(urlString) ==
    PathJoin("linux", LinuxIconDir, generateAppId(urlString, "0") \o ".png")
DesktopFilePath(urlString, browserId) ==
    PathJoin("linux", getWebAppDirectoryById("linux", browserId),
             generateAppId(urlString, "0") \o ".desktop")

\* the files below the temporary directory that hold another download than own
OthersIn(f, own) ==
    {q \in DOMAIN f : /\ Under("linux", q, LinuxTempDir)
                      /\ f[q].kind = "file"
                      /\ f[q].data # own}

InitConcurrent ==
    /\ platform = "linux"
    /\ fs = <<>>
    /\ env = [kind |-> "none"]
    /\ history = <<>>
    /\ last = [op |-> "none"]
    /\ running = [p \in DOMAIN ConcurrentInstalls |->
                    [pc |-> "start", url |-> ConcurrentInstalls[p].url,
                     appName |-> ConcurrentInstalls[p].appName,
                     browserId |-> ConcurrentInstalls[p].browserId,
                     iconUrl |-> "", icon |-> "", iconPath |-> "web-browser",
                     meddled |-> {}]]
    /\ websiteUrl = "" /\ net = ConcurrentNet
    /\ discovery = [state |-> "idle"]
    /\ server = <<>>
    /\ fetch = [state |-> "idle"]

\* process p moves on; the other process and everything else but fs stay
Moves(p, next) ==
    /\ running' = [running EXCEPT ![p] = next]
    /\ UNCHANGED <<discoveryVars, fetchVars, platform, env, history, last>>

\* installWebApp and createLinuxApp make appDir and iconDir
MakeDirs(p) ==
    /\ running[p].pc = "start"
    /\ fs' = Mkdirp(Mkdirp(fs, getWebAppDirectoryById("linux", running[p].browserId)),
                    LinuxIconDir)
    /\ Moves(p, [running[p] EXCEPT !.pc = "download"])

\* prepareIcon: getBestIconUrl, then downloadIcon up to mkdir(tempDir)
MakeTempDir(p) ==
    /\ running[p].pc = "download"
    /\ \E best \in {getBestIconUrl(running[p].url, net)} :
            /\ best.state = "returned"
            /\ fs' = Mkdirp(fs, LinuxTempDir)
            /\ Moves(p, [running[p] EXCEPT !.pc = "write", !.iconUrl = best.url])

\* downloadIcon: writeFile(iconPath, data); it fails when tempDir is gone, and then
\* prepareIcon returns success=false without cleaning up
WriteDownload(p) ==
    /\ running[p].pc = "write"
    /\ IF Exists("linux", fs, LinuxTempDir)
       THEN /\ fs' = WriteFile(fs, LinuxTempIcon, File(IconData(running[p].iconUrl)))
            /\ Moves(p, [running[p] EXCEPT
                            !.pc = "copy",
                            !.meddled = @ \cup IF OthersIn(fs, IconData(running[p].iconUrl)) = {}
                                               THEN {} ELSE {"overwrote"}])
       ELSE /\ fs' = fs
            /\ Moves(p, [running[p] EXCEPT !.pc = "desktop", !.icon = "failed"])

\* prepareIcon, linux case: fs.copyFileSync(downloaded.path, pngPath); it throws when
\* the download is gone, out of prepareIcon and into createLinuxApp's catch
CopyDownload(p) ==
    /\ running[p].pc = "copy"
    /\ IF LinuxTempIcon \in DOMAIN fs
       THEN /\ fs' = CopyFile(fs, LinuxTempIcon, LinuxPngPath)
            /\ Moves(p, [running[p] EXCEPT
                            !.pc = "cleanup",
                            !.meddled = @ \cup IF OthersIn(fs, IconData(running[p].iconUrl)) = {}
                                               THEN {} ELSE {"read"}])
       ELSE /\ fs' = fs
            /\ Moves(p, [running[p] EXCEPT !.pc = "desktop", !.icon = "threw"])

\* prepareIcon: rm -rf tempDir
CleanUp(p) ==
    /\ running[p].pc = "cleanup"
    /\ fs' = RemoveAll("linux", fs, LinuxTempDir)
    /\ Moves(p, [running[p] EXCEPT
                    !.pc = "rename",
                    !.meddled = @ \cup IF OthersIn(fs, IconData(running[p].iconUrl)) = {}
                                       THEN {} ELSE {"deleted"}])

\* createLinuxApp: fs.renameSync(iconResult.path, newIconPath); it throws when
\* icon.png is gone, into the catch
RenameIcon(p) ==
    /\ running[p].pc = "rename"
    /\ IF LinuxPngPath \in DOMAIN fs
       THEN /\ fs' = Rename(fs, LinuxPngPath, NewIconPath(running[p].url))
            /\ Moves(p, [running[p] EXCEPT !.pc = "desktop", !.icon = "ok",
                                           !.iconPath = NewIconPath(running[p].url)])
       ELSE /\ fs' = fs
            /\ Moves(p, [running[p] EXCEPT !.pc = "desktop", !.icon = "threw"])

\* createLinuxApp: writeFile(desktopFilePath, desktopContent), and the return
WriteDesktop(p) ==
    /\ running[p].pc = "desktop"
    /\ fs' = WriteFile(fs, DesktopFilePath(running[p].url, running[p].browserId),
                       File(DesktopContent(running[p].url, running[p].appName,
                                           sanitizeAppName(running[p].appName),
                                           Browser("linux", running[p].browserId),
                                           running[p].iconPath)))
    /\ Moves(p, [running[p] EXCEPT !.pc = "done"])

NextConcurrent ==
    \E p \in DOMAIN ConcurrentInstalls :
        \/ MakeDirs(p)
        \/ MakeTempDir(p)
        \/ WriteDownload(p)
        \/ CopyDownload(p)
        \/ CleanUp(p)
        \/ RenameIcon(p)
        \/ WriteDesktop(p)

SpecConcurrent == InitConcurrent /\ [][NextConcurrent]_vars

\* C14: of two installs of different apps running at the same time, whatever the
\* interleaving, neither overwrites, reads or deletes a download of the other in the
\* temporary directory, and each ends with the icon of its own URL: its launcher names
\* an icon file, and that file holds the bytes served for its own page's icon.
C14_TempDirsNotShared ==
    \A p \in DOMAIN running :
        /\ running[p].meddled = {}
        /\ running[p].pc = "done" =>
            /\ running[p].icon = "ok"
            /\ running[p].iconPath \in DOMAIN fs
            /\ fs[running[p].iconPath] = File(IconData(running[p].iconUrl))

----------------------------------------------------------------------------
(* utils.js on its own: sanitizeAppName of one name, generateAppId of one   *)
(* string called again as the clock goes on                                 *)

\* the length of what follows the padding in a name
MaxNameTail == 3

\* calls of generateAppId in one behaviour
MaxCalls == 2

\* a letter, the whitespace characters and two of the characters no file name may have
NameChars == {"a", " ", "\t", "\n", ":", "/"}

\* nothing, a letter, and 49 letters around a colon: with a tail of two that stay the
\* name is longer than the limit
NamePads == {"", "a", "xxxxxxxxxxxxxxxxxxxxxxxx:xxxxxxxxxxxxxxxxxxxxxxxxx"}

RECURSIVE Join(_)
\* the strings of a sequence, one after the other
Join(seq) == IF seq = <<>> THEN "" ELSE Head(seq) \o Join(Tail(seq))

NameInputs == {pad \o Join(tail) : pad \in NamePads, tail \in SeqsUpTo(NameChars, MaxNameTail)}

\* URLs with a host and a path to rewrite, and strings new URL() throws on
IdInputs ==
    {"https://github.com/", "https://Open.Spotify.com/Some/Path?x=1",
     "http://localhost:3000/app/index.html", "not a url", ""}

\* Date.now() at each tick of the clock
Times == <<"1730685600000", "1730685600001">>

InitUtils ==
    /\ last \in {[op |-> "name", input |-> n] : n \in NameInputs}
                    \cup {[op |-> "url", input |-> u] : u \in IdInputs}
    /\ env = [kind |-> "clock", tick |-> 1]
    /\ history = <<>>
    /\ platform = "none" /\ fs = <<>>
    /\ InitIdle
    /\ server = <<>>
    /\ fetch = [state |-> "idle"]

\* sanitizeAppName(name)
SanitizeAppName ==
    /\ last.op = "name"
    /\ last' = [op |-> "sanitizeAppName", input |-> last.input,
                result |-> sanitizeAppName(last.input)]
    /\ UNCHANGED <<discoveryVars, fetchVars, running, platform, env, fs, history>>

\* generateAppId(urlString), now
GenerateAppId ==
    /\ last.op \in {"url", "generateAppId"}
    /\ Len(history) < MaxCalls
    /\ \E id \in {generateAppId(last.input, Times[env.tick])} :
            /\ last' = [op |-> "generateAppId", input |-> last.input, result |-> id]
            /\ history' = Append(history, id)
    /\ UNCHANGED <<discoveryVars, fetchVars, running, platform, env, fs>>

\* time passes between two calls
Tick ==
    /\ last.op \in {"url", "generateAppId"}
    /\ env.tick < Len(Times)
    /\ env' = [env EXCEPT !.tick = @ + 1]
    /\ UNCHANGED <<discoveryVars, fetchVars, running, platform, fs, history, last>>

\* sanitizeAppName(name) of a name that sanitizeAppName returned, as uninstallWebApp
\* does with the name of a launcher
SanitizeAgain ==
    /\ last.op = "sanitizeAppName"
    /\ last' = [op |-> "sanitizeAgain", input |-> last.result,
                result |-> sanitizeAppName(last.result)]
    /\ UNCHANGED <<discoveryVars, fetchVars, running, platform, env, fs, history>>

NextUtils == SanitizeAppName \/ GenerateAppId \/ Tick \/ SanitizeAgain

SpecUtils == InitUtils /\ [][NextUtils]_vars

C17_SanitizedName ==
    last.op = "sanitizeAppName"
        => /\ \A i \in 1..Len(last.result) :
                CharAt(last.result, i) \notin {"<", ">", ":", "\"", "/", "\\", "|", "?", "*"}
           /\ \A i \in 1..(Len(last.result) - 1) :
                ~(/\ CharAt(last.result, i) \in {" ", "\t", "\n"}
                  /\ CharAt(last.result, i + 1) \in {" ", "\t", "\n"})
           /\ Len(last.result) <= 50

\* C17 witness: a name longer than 50 with a colon and two blanks in a row comes back
\* cut to 50 characters
C17_Witness ==
    /\ last.op = "sanitizeAppName"
    /\ Len(last.input) > 50
    /\ \E i \in 1..(Len(last.input) - 1) :
            CharAt(last.input, i) = " " /\ CharAt(last.input, i + 1) = " "
    /\ \E i \in 1..Len(last.input) : CharAt(last.input, i) = ":"
    /\ Len(last.result) = 50

----------------------------------------------------------------------------
(* The requests of one prepareIcon                                          *)

\* scheme and host of the page of the run, written out
PageOrigin ==
    IF websiteUrl = "https://github.com/" THEN "https://github.com"
    ELSE "https://open.spotify.com"

\* the page of the run was fetched and has a <link> with this rel
PageHas(rel) ==
    /\ env.net.page.ok
    /\ \E i \in 1..Len(env.net.page.data) : env.net.page.data[i].rel = rel

\* C18: one prepareIcon asks for the page once, for the manifest at most once and
\* for one icon once, in this order, and for nothing else: when the page request fails
\* the next and last request is the favicon fallback, when the manifest request fails
\* the candidates of the page are ranked without it, and when the icon request fails
\* prepareIcon returns success=false without asking again or asking for a
\* lower-ranked candidate.
C18_NoRequestRetried ==
    last.op = "prepareIcon"
        => /\ \A i, j \in 1..Len(last.requests) :
                i # j => last.requests[i] # last.requests[j]
           /\ Len(last.requests) = IF PageHas("manifest") THEN 3 ELSE 2
           /\ last.requests[1] = websiteUrl
           /\ PageHas("manifest") => last.requests[2] = PageOrigin \o "/manifest.json"
           /\ ~env.net.page.ok => last.requests[2] = PageOrigin \o "/favicon.ico"
           /\ PageHas("apple-touch-icon")
                => last.requests[Len(last.requests)] = PageOrigin \o "/apple.png"
           /\ ~env.icon.ok => ~last.success /\ ~last.threw

\* C18 witness: the manifest request and the request for the best icon both failed,
\* with a lower-ranked candidate on the page, and three requests were made
C18_Witness ==
    /\ last.op = "prepareIcon"
    /\ PageHas("manifest") /\ PageHas("icon") /\ PageHas("apple-touch-icon")
    /\ ~env.net.manifest.ok
    /\ ~env.icon.ok
    /\ ~last.success
    /\ Len(last.requests) = 3

\* the extension of the format a content type names, "" when it names none
FormatOf(contentType) ==
    IF contentType = "image/png" THEN ".png"
    ELSE IF contentType = "image/svg+xml" THEN ".svg"
    ELSE IF contentType \in {"image/x-icon", "image/vnd.microsoft.icon"} THEN ".ico"
    ELSE IF contentType \in {"image/jpeg", "image/jpg"} THEN ".jpg"
    ELSE ""

\* the extension an icon URL ends in, among those downloadIcon looks for
SuffixOf(iconUrl) ==
    IF iconUrl = "https://github.com/favicon.ico" THEN ".ico"
    ELSE IF iconUrl = "https://github.com/logo.svg" THEN ".svg"
    ELSE ""

\* C19: the extension of a download is that of the format the content type names
\* (svg, ico, jpeg/jpg, png) however the icon URL ends; when the content type names
\* none it is that of the URL's suffix, and .png when that decides nothing either.
C19_ContentTypeFirst ==
    (last.op = "downloadIcon" /\ last.success)
        => last.extension =
                IF FormatOf(last.contentType) # "" THEN FormatOf(last.contentType)
                ELSE IF SuffixOf(last.iconUrl) # "" THEN SuffixOf(last.iconUrl)
                ELSE ".png"

----------------------------------------------------------------------------
(* The macOS branch with an SVG download                                   *)

\* the temporary directory of the run and the download in it
DarwinTempDir == PathJoin("darwin", IconOutputDir("darwin"), ".icon-temp")
DarwinSvg == PathJoin("darwin", DarwinTempDir, "icon.svg")

\* C20: on macOS with an SVG download the SVG command runs before the resize; when
\* it ends well the resize is given the rasterized icon.png and that file exists,
\* and when it fails the resize is given the downloaded SVG, which exists.
C20_RasterizedInputExists ==
    (last.op = "prepareIcon" /\ platform = "darwin" /\ last.resized.extension = ".svg")
        => /\ last.resized.rasterized = (env.svgTool # "none")
           /\ last.resized.rasterized
                => /\ last.resized.path = PathJoin("darwin", DarwinTempDir, "icon.png")
                   /\ last.resized.exists
           /\ ~last.resized.rasterized
                => last.resized.path = DarwinSvg /\ last.resized.exists

----------------------------------------------------------------------------
(* What a removal may delete                                               *)

\* the launchers installs created under a name that sanitizes as appName does
LaunchersOf(appName) ==
    {history[i].appPath : i \in {j \in 1..Len(history) :
        sanitizeAppName(history[j].appName) = sanitizeAppName(appName)}}

\* C21: uninstallWebApp(name, browser) deletes at most one entry of the install
\* directory (with what lies below it), and only a launcher that an install created
\* for the same sanitized name: never the launcher of a differently named app, never
\* a launcher this tool did not create.
C21_UninstallOnlyOwnLauncher ==
    (last.op = "uninstall" /\ last.removed # {})
        => /\ last.success
           /\ \A q \in last.removed : Under(platform, q, last.appPath)
           /\ last.appPath \in LaunchersOf(last.appName)

----------------------------------------------------------------------------
(* webnest installed, then webnest remove with a name it showed             *)

\* two names longer than MaxNameLen: 51 letters, and 49 letters, a blank and two more
LongName == "xxxxxxxxxxxxxxxxxxxxxxxxxxxxxxxxxxxxxxxxxxxxxxxxxxx"
LongNameBlank == "xxxxxxxxxxxxxxxxxxxxxxxxxxxxxxxxxxxxxxxxxxxxxxxxx yz"

\* the names of the installs
RoundTripNames == {"GitHub", "Cash.app: Pay", LongName, LongNameBlank}

\* webnest <url> --name <appName> --browser <id>: installWebApp, whole
InstallNamed ==
    /\ Len(history) < MaxInstalls
    /\ \E url \in InstallUrls, appName \in RoundTripNames, id \in InstallBrowsers,
          e \in SessionEnvs :
            LET Done(r) ==
                    /\ fs' = r.fs
                    /\ last' = Installed(url, appName, id, r, fs)
                    /\ history' = Append(history, Launched(url, appName, id, r, fs))
            IN /\ validateUrl(url)
               /\ Done(installWebApp(platform, url, appName, Browser(platform, id), fs, e))
               /\ env' = e
    /\ UNCHANGED <<discoveryVars, fetchVars, running, platform>>

\* webnest installed --browser <id>, then webnest remove <name> --browser <id> with a
\* name of the listing: uninstallWebApp, whole; listed are the entries shown under
\* that name
RemoveListed ==
    /\ \E id \in InstallBrowsers, rmOk \in BOOLEAN :
         \E appName \in {a.name : a \in listInstalledApps(platform, id, fs)} :
          \E r \in uninstallWebApp(platform, appName, id, fs, rmOk) :
            /\ fs' = r.fs
            /\ last' = [op |-> "uninstall", url |-> "", appName |-> appName,
                        browserId |-> id, success |-> r.success, appPath |-> r.appPath,
                        note |-> r.error, icon |-> "", notFound |-> r.notFound,
                        removed |-> DOMAIN fs \ DOMAIN r.fs, rmOk |-> rmOk,
                        listed |-> {a \in listInstalledApps(platform, id, fs) :
                                        a.name = appName}]
    /\ UNCHANGED <<discoveryVars, fetchVars, running, platform, env, history>>

\* listWebApps(options) without a browser filter: the entries of listInstalledApps for
\* each of the six browsers, one after the other.  Every entry carries its browserId,
\* so the entries of two browsers never coincide and the set keeps each of them
listWebApps(plat, f) ==
    UNION {listInstalledApps(plat, AllBrowsers[i], f) : i \in DOMAIN AllBrowsers}

\* webnest installed: listWebApps, whole
ListAll ==
    /\ last' = [op |-> "listAll", apps |-> listWebApps(platform, fs)]
    /\ UNCHANGED <<discoveryVars, fetchVars, running, platform, env, fs, history>>

NextRoundTrip == InstallNamed \/ List \/ RemoveListed \/ ListAll

SpecRoundTrip == Init /\ [][NextRoundTrip]_vars

\* C22: for every entry that listInstalledApps(B) gives for an app this tool
\* installed, uninstallWebApp(entry.name, B) succeeds (fs.rm working), removes that
\* entry's artifact and nothing else, and the next listInstalledApps(B) has no entry
\* for it; so also for names cut to 50 characters at the install.
C22_ListRemoveRoundTrip ==
    (/\ last.op = "uninstall"
     /\ last.rmOk
     /\ history # <<>>)
        => \A a \in last.listed :
                a.path = history[1].appPath
                    => /\ last.success
                       /\ last.appPath = a.path
                       /\ last.removed # {}
                       /\ \A q \in last.removed : Under(platform, q, a.path)
                       /\ \A b \in listInstalledApps(platform, last.browserId, fs) :
                                b.path # a.path

----------------------------------------------------------------------------
(* Two installs, one after the other, of two apps with icons of their own   *)

\* the two apps, in the order of their installs
TwoApps ==
    << [url |-> "https://github.com/", appName |-> "GitHub"],
       [url |-> "https://open.spotify.com/", appName |-> "Spotify"] >>

\* the environments of the install of url: the page names an apple-touch-icon whose
\* bytes are the site's own and the conversion tool works or not, or there is no
\* network at all
AppEnvs(url) ==
    { Env(ConcurrentNet,
          [ok |-> TRUE, data |-> IconData(url \o "apple.png"), contentType |-> "image/png"],
          TRUE, "none", t, TRUE) : t \in BOOLEAN }
        \cup {Env([page |-> Rejected, manifest |-> Rejected], Rejected, TRUE, "none", TRUE,
                  TRUE)}

\* the files an install left, with their content
Snapshot(f, before) == [q \in DOMAIN f \ DOMAIN before |-> f[q]]

\* webnest <url> --name <appName> --browser <id> for the next of the two apps:
\* installWebApp, whole; history keeps the files it left
InstallNext ==
    /\ Len(history) < Len(TwoApps)
    /\ \E id \in InstallBrowsers, e \in AppEnvs(TwoApps[Len(history) + 1].url) :
            LET app == TwoApps[Len(history) + 1]
                Done(r) ==
                    /\ fs' = r.fs
                    /\ last' = Installed(app.url, app.appName, id, r, fs)
                    /\ history' = Append(history,
                                         [files |-> Snapshot(r.fs, fs)]
                                            @@ Launched(app.url, app.appName, id, r, fs))
            IN /\ validateUrl(app.url)
               /\ Done(installWebApp(platform, app.url, app.appName,
                                     Browser(platform, id), fs, e))
               /\ env' = e
    /\ UNCHANGED <<discoveryVars, fetchVars, running, platform>>

NextTwoApps == InstallNext

SpecTwoApps == Init /\ [][NextTwoApps]_vars

\* the launcher and the icon files among the files an install left
ArtifactsOf(app) ==
    {q \in DOMAIN app.files : Under(platform, q, app.appPath) \/ q \in IconsOf(app.created)}

\* C23: after the install of app A and then of app B, of another name and another
\* URL, for the same browser or another, A's launcher is there with the content it
\* had and A's icon file is there with the bytes produced for A.
C23_InstallLeavesOthersUntouched ==
    (Len(history) = 2 /\ last.op = "install")
        => \A q \in ArtifactsOf(history[1]) :
                q \in DOMAIN fs /\ fs[q] = history[1].files[q]

----------------------------------------------------------------------------
(* webnest installed without a browser                                     *)

\* C24: webnest installed without a browser filter shows each installed web app
\* once, under the browser it was installed with, and shows only launchers this tool
\* created: no two entries of the six listings have the same path.
C24_ListedOncePerApp ==
    last.op = "listAll"
        => /\ \A a, b \in last.apps : a.path = b.path => a = b
           /\ \A a \in last.apps :
                \E i \in 1..Len(history) : /\ history[i].appPath = a.path
                                           /\ history[i].browserId = a.browserId
           /\ \A i \in 1..Len(history) :
                Exists(platform, fs, history[i].appPath)
                    => \E a \in last.apps : a.path = history[i].appPath

----------------------------------------------------------------------------
(* sanitizeAppName, twice                                                  *)

\* C25: sanitizeAppName(sanitizeAppName(name)) = sanitizeAppName(name) for every
\* name, so that the file name of the install and the one derived again at the
\* listing or the removal agree.
C25_SanitizeIdempotent ==
    last.op = "sanitizeAgain" => last.result = last.input

----------------------------------------------------------------------------
(* browser.js: the name of an app from the title of its page               *)

RECURSIVE ReplaceAll(_, _, _)
\* s.replace(/t/g, r) for a literal t
ReplaceAll(s, t, r) ==
    IF ~Includes(s, t) THEN s
    ELSE SplitFirst(s, t).before \o r \o ReplaceAll(SplitFirst(s, t).after, t, r)

\* String.fromCharCode(code) for the codes the pages below use
CharCodes == [c \in {"38", "39", "58", "63"} |->
                IF c = "38" THEN "&" ELSE IF c = "39" THEN "'"
                ELSE IF c = "58" THEN ":" ELSE "?"]

RECURSIVE DigitsPrefix(_)
\* the digits s starts with: what (\d+) takes
DigitsPrefix(s) ==
    IF s # "" /\ IsDigit(CharAt(s, 1)) THEN CharAt(s, 1) \o DigitsPrefix(From(s, 2))
    ELSE ""

RECURSIVE DecodeNumeric(_)
\* s.replace(/&#(\d+);/g, (_, code) => String.fromCharCode(code))
DecodeNumeric(s) ==
    LET Entity(cut, digits) ==
            IF digits # "" /\ StartsWith(From(cut.after, Len(digits) + 1), ";")
            THEN cut.before \o CharCodes[digits]
                    \o DecodeNumeric(From(cut.after, Len(digits) + 2))
            ELSE cut.before \o "&#" \o DecodeNumeric(cut.after)
    IN IF ~Includes(s, "&#") THEN s
       ELSE Entity(SplitFirst(s, "&#"), DigitsPrefix(SplitFirst(s, "&#").after))

\* the replacements fetchPageTitle makes in the matched title, in their order, and
\* the trim
DecodeTitle(t) ==
    Trim(ReplaceAll(ReplaceAll(ReplaceAll(ReplaceAll(ReplaceAll(ReplaceAll(
            DecodeNumeric(t), "&amp;", "&"), "&lt;", "<"), "&gt;", ">"), "&quot;", "\""),
            "&#39;", "'"), "&nbsp;", " "))

NoMatch == [found |-> FALSE, text |-> ""]

RECURSIVE TitleMatch(_)
\* body.match(/<title[^>]*>([^<]+)<\/title>/i): the text of the leftmost match
TitleMatch(body) ==
    LET At(i) ==
            LET rest == From(body, i + 6)
                gt == IndexOf(rest, ">")
                after == From(rest, gt + 1)
                lt == IndexOf(after, "<")
            IN IF /\ gt # 0
                  /\ lt > 1
                  /\ StartsWith(ToLowerCase(From(after, lt)), "</title>")
               THEN [found |-> TRUE, text |-> SubSeq(after, 1, lt - 1)]
               ELSE TitleMatch(From(body, i + 1))
    IN IF ~Includes(ToLowerCase(body), "<title") THEN NoMatch
       ELSE At(IndexOf(ToLowerCase(body), "<title"))

\* what the 'end' handler resolves with: the decoded title, or null
PageTitle(body) ==
    LET Of(m) == IF m.found /\ m.text # "" THEN [found |-> TRUE, text |-> DecodeTitle(m.text)]
                 ELSE NoMatch
    IN Of(TitleMatch(body))

\* the fallback of getAppNameFromUrl: the first label of the hostname without a
\* leading "www.", its first letter in upper case; 'WebApp' when new URL throws
HostName(urlString) ==
    LET Label(h) == BeforeFirst(IF StartsWith(h, "www.") THEN From(h, 5) ELSE h, ".")
        Cap(name) == IF name = "" THEN "" ELSE UpperChar(CharAt(name, 1)) \o From(name, 2)
    IN IF ParseUrl(urlString).valid THEN Cap(Label(ParseUrl(urlString).hostname))
       ELSE "WebApp"

\* getAppNameFromUrl(urlString) once fetchPageTitle settled: title is what it
\* resolved with, NoMatch standing for null and for a rejection
getAppNameFromUrl(urlString, title) ==
    IF title.found /\ title.text # "" THEN sanitizeAppName(title.text)
    ELSE HostName(urlString)

\* body.length after which fetchPageTitle destroys the response
MaxBodyLen == 50000

TitleUrls == {"https://www.github.com/", "https://www.github.com/b"}

\* a chunk of a body: its text, and the number of characters that follow the text and
\* are not written out here (they hold no "<")
Chunk(text, padding) == [text |-> text, padding |-> padding]

\* the bodies of the pages: with a title, without one, with a title of illegal
\* characters only, of entities, of a blank, with an empty title, and two long ones
TitleBodies ==
    { <<Chunk("<html><head><title>GitHub: Where the world builds</title></head></html>", 0)>>,
      <<Chunk("<html><head>", 0), Chunk("<TITLE lang=\"en\"> Tom &amp; Jerry </TITLE>", 0)>>,
      <<Chunk("<html><head></head></html>", 0)>>,
      <<Chunk("<title>???</title>", 0)>>,
      <<Chunk("<title>&#58;&lt;&quot;</title>", 0)>>,
      <<Chunk("<title>&nbsp;</title>", 0)>>,
      <<Chunk("<title></title>", 0)>>,
      <<Chunk("<html><head><title>GitHub</title></head>", 0), Chunk("<body>", 60000)>>,
      <<Chunk("<html><head><title>GitHub</title></head>", 49000)>> }

\* what a server does with a request for the title: a socket error or a timeout, a
\* redirect, or a response with a body
TitleResponses ==
    {[kind |-> "error"]}
        \cup {[kind |-> "response", status |-> 302, location |-> l, chunks |-> <<>>] :
                l \in {"/b", "https://www.github.com/"}}
        \cup {[kind |-> "response", status |-> 200, location |-> Null, chunks |-> b] :
                b \in TitleBodies}
        \cup {[kind |-> "response", status |-> 404, location |-> Null,
               chunks |-> <<Chunk("<html><head><title>Not Found</title></head></html>", 0)>>]}

InitTitle ==
    /\ websiteUrl \in TitleUrls
    /\ server \in [TitleUrls -> TitleResponses]
    /\ fetch = [state |-> "idle"]
    /\ net = [page |-> Rejected, manifest |-> Rejected]
    /\ discovery = [state |-> "idle"]
    /\ InitNoInstaller

\* getAppNameFromUrl(urlString) calls fetchPageTitle(urlString): the request is sent
GetAppNameFromUrl ==
    /\ fetch.state = "idle"
    /\ validateUrl(websiteUrl)
    /\ fetch' = [state |-> "requesting", url |-> websiteUrl, requests |-> 1, read |-> 0,
                 body |-> "", length |-> 0, title |-> NoMatch]
    /\ UNCHANGED <<server, discoveryVars, installerVars>>

\* the response callback on a 3xx with a Location header: fetchPageTitle(redirectUrl),
\* whose outcome becomes the outcome of this fetch
TitleRedirect ==
    /\ fetch.state = "requesting"
    /\ IsRedirect(server[fetch.url])
    /\ fetch.requests < MaxRequests
    /\ fetch' = [fetch EXCEPT !.url = RedirectUrl(server[fetch.url].location, fetch.url),
                              !.requests = @ + 1]
    /\ UNCHANGED <<server, discoveryVars, installerVars>>

\* res.on('data'): the chunk is added to the body, and past MaxBodyLen the response is
\* destroyed.  A destroyed response emits no 'end'; whether it emits an 'error' is
\* the runtime's choice, so either the promise is rejected or it never settles
TitleData ==
    /\ fetch.state = "requesting"
    /\ server[fetch.url].kind = "response"
    /\ ~IsRedirect(server[fetch.url])
    /\ fetch.read < Len(server[fetch.url].chunks)
    /\ LET chunk == server[fetch.url].chunks[fetch.read + 1]
           length == fetch.length + Len(chunk.text) + chunk.padding
       IN \E state \in IF length > MaxBodyLen THEN {"aborted", "hung"} ELSE {"requesting"} :
            fetch' = [fetch EXCEPT !.state = state, !.read = @ + 1,
                                   !.body = @ \o chunk.text, !.length = length]
    /\ UNCHANGED <<server, discoveryVars, installerVars>>

\* res.on('end'): the promise is resolved with the title of the body, or with null
TitleEnd ==
    /\ fetch.state = "requesting"
    /\ server[fetch.url].kind = "response"
    /\ ~IsRedirect(server[fetch.url])
    /\ fetch.read = Len(server[fetch.url].chunks)
    /\ fetch' = [fetch EXCEPT !.state = "settled", !.title = PageTitle(fetch.body)]
    /\ UNCHANGED <<server, discoveryVars, installerVars>>

\* req.on('error'), req.on('timeout'), res.on('error'): the promise is rejected
TitleReject ==
    /\ \/ fetch.state = "requesting" /\ server[fetch.url].kind = "error"
       \/ fetch.state = "aborted"
    /\ fetch' = [fetch EXCEPT !.state = "settled", !.title = NoMatch]
    /\ UNCHANGED <<server, discoveryVars, installerVars>>

\* getAppNameFromUrl goes on after the await and returns
ReturnName ==
    /\ fetch.state = "settled"
    /\ fetch' = [fetch EXCEPT !.state = "returned"]
    /\ last' = [op |-> "getAppNameFromUrl", url |-> websiteUrl,
                name |-> getAppNameFromUrl(websiteUrl, fetch.title)]
    /\ UNCHANGED <<server, discoveryVars, platform, env, fs, history, running>>

NextTitle ==
    GetAppNameFromUrl \/ TitleRedirect \/ TitleData \/ TitleEnd \/ TitleReject \/ ReturnName

SpecTitle == InitTitle /\ [][NextTitle]_vars

\* the names expected for the pages with a title that has a character to keep,
\* written out; the key is the text of the page
ExpectedNames ==
    ("<html><head><title>GitHub: Where the world builds</title></head></html>"
        :> "GitHub Where the world builds")
    @@ ("<html><head><TITLE lang=\"en\"> Tom &amp; Jerry </TITLE>" :> "Tom & Jerry")
    @@ ("<html><head><title>Not Found</title></head></html>" :> "Not Found")
    @@ ("<html><head><title>GitHub</title></head>" :> "GitHub")

\* C26: for a valid http/https URL, whatever the servers do, the name
\* getAppNameFromUrl returns is not empty: it is the sanitized title of the page when
\* the page was read and has one, and else the first label of the hostname without
\* "www.", capitalized.
C26_NameFromTitleOrHost ==
    fetch.state = "returned"
        => /\ last.name # ""
           /\ last.name = IF fetch.title.found /\ fetch.body \in DOMAIN ExpectedNames
                          THEN ExpectedNames[fetch.body]
                          ELSE "Github"

====
